---------------------------- MODULE Spec2Model ----------------------------
(***************************************************************************)
(* A model of the cursor subsystem: the vector cursor animator             *)
(* (cursor/vector/animator.rs), the theme configuration                    *)
(* (cursor/vector/config.rs), the renderer store (cursor/vector/store.rs)  *)
(* and the cursor manager with its raster loader and caches (cursor.rs).   *)
(*                                                                         *)
(* Numbers keep the widths of the source: u32 values are pairs of 16-bit   *)
(* limbs (the checker's integers are 32-bit signed), and f32 values are    *)
(* IEEE-754 binary32 with round-to-nearest-even, gradual underflow,        *)
(* infinity and NaN.                                                       *)
(***************************************************************************)
EXTENDS Integers, Sequences, FiniteSets, TLC

(***************************************************************************)
(* u32: [hi, lo], value hi * 2^16 + lo.                                    *)
(***************************************************************************)
Limb == 65536

U32(n) == [hi |-> n \div Limb, lo |-> n % Limb]

U32Zero == U32(0)

U32IsZero(a) == a.hi = 0 /\ a.lo = 0

\* a + b as the wide sum: [carry, hi, lo].
U32WideAdd(a, b) ==
    LET lo == a.lo + b.lo
        hi == a.hi + b.hi + lo \div Limb
    IN  [carry |-> hi \div Limb, hi |-> hi % Limb, lo |-> lo % Limb]

U32Overflows(a, b) == U32WideAdd(a, b).carry # 0

\* a + b modulo 2^32 (the wrapping sum of a build without overflow checks).
U32WrappingAdd(a, b) ==
    LET w == U32WideAdd(a, b) IN [hi |-> w.hi, lo |-> w.lo]

(***************************************************************************)
(* f32: a finite non-negative value is [k |-> "fin", m, e], value m * 2^e, *)
(* in canonical form: normal 2^23 <= m < 2^24 with e >= -149, or           *)
(* subnormal m < 2^23 with e = -149 (zero is m = 0).  The animator never   *)
(* produces a negative value.                                              *)
(***************************************************************************)
MantBits == 24

MinExp == -149

MaxExp == 104

FInf == [k |-> "inf"]

FNaN == [k |-> "nan"]

Fin(m, e) == [k |-> "fin", m |-> m, e |-> e]

FZero == Fin(0, MinExp)

FOne == Fin(2^23, -23)

FHalf == Fin(2^23, -24)

IsFin(a) == a.k = "fin"

BitLen(n) == IF n = 0 THEN 0 ELSE CHOOSE b \in 1..31 : n \div 2^(b - 1) = 1

Max(a, b) == IF a >= b THEN a ELSE b

\* The f32 nearest to (n + s) * 2^e, ties to even, where 0 < s < 1 when
\* sticky and s = 0 otherwise.  Callers with sticky set pass n wide enough
\* for at least one bit to be rounded off.
FRound(n, e, sticky) ==
    LET shift == Max(BitLen(n) - MantBits, MinExp - e)
    IN  IF n = 0 /\ ~sticky
        THEN FZero
        ELSE IF shift <= 0
        THEN Fin(n * 2^(0 - shift), e + shift)
        ELSE IF shift > 31
        THEN FZero
        ELSE LET q    == IF shift = 31 THEN 0 ELSE n \div 2^shift
                 low  == IF shift = 31 THEN n ELSE n % 2^shift
                 half == 2^(shift - 1)
                 up   == \/ low > half
                         \/ low = half /\ (sticky \/ q % 2 = 1)
                 r    == IF up THEN q + 1 ELSE q
             IN  IF r = 2^MantBits
                 THEN IF e + shift + 1 > MaxExp THEN FInf
                      ELSE Fin(2^(MantBits - 1), e + shift + 1)
                 ELSE IF e + shift > MaxExp THEN FInf
                 ELSE Fin(r, e + shift)

\* `x as f32` for a u32 x.
F32FromU32(x) ==
    IF x.hi < 32768
    THEN FRound(x.hi * Limb + x.lo, 0, FALSE)
    ELSE FRound(x.hi * 32768 + x.lo \div 2, 1, x.lo % 2 = 1)

\* Shifts mantissa m up to 24 bits: [m, s] with the shift applied.
FNormalize(a) ==
    LET s == MantBits - BitLen(a.m) IN [m |-> a.m * 2^s, s |-> s]

RECURSIVE LongDiv(_, _, _, _)
\* k more quotient bits of r / d (r < d): [q, r].
LongDiv(r, d, k, q) ==
    IF k = 0 THEN [q |-> q, r |-> r]
    ELSE LET r2 == 2 * r
         IN  IF r2 >= d THEN LongDiv(r2 - d, d, k - 1, 2 * q + 1)
             ELSE LongDiv(r2, d, k - 1, 2 * q)

\* a / b for finite a, b.
FDiv(a, b) ==
    IF b.m = 0 THEN (IF a.m = 0 THEN FNaN ELSE FInf)
    ELSE IF a.m = 0 THEN FZero
    ELSE LET na == FNormalize(a)
             nb == FNormalize(b)
             d  == LongDiv(na.m % nb.m, nb.m, 26, na.m \div nb.m)
         IN  FRound(d.q, (a.e - na.s) - (b.e - nb.s) - 26, d.r # 0)

\* a < b for finite canonical a, b.
FLess(a, b) == a.e < b.e \/ (a.e = b.e /\ a.m < b.m)

\* a + b.
FAdd(a, b) ==
    IF a.k = "nan" \/ b.k = "nan" THEN FNaN
    ELSE IF a.k = "inf" \/ b.k = "inf" THEN FInf
    ELSE IF a.m = 0 THEN b
    ELSE IF b.m = 0 THEN a
    ELSE LET x == IF FLess(a, b) THEN b ELSE a
             y == IF FLess(a, b) THEN a ELSE b
             d == x.e - y.e
         IN  IF d >= 26 THEN x
             ELSE LET yw == y.m * 64
                  IN  FRound(x.m * 64 + yw \div 2^d, x.e - 6, yw % 2^d # 0)

\* a - b for finite a >= b.
FSub(a, b) ==
    IF a.k = "nan" \/ b.k = "nan" THEN FNaN
    ELSE IF b.m = 0 THEN a
    ELSE LET d == a.e - b.e
         IN  IF d >= 26 THEN a
             ELSE LET yw == b.m * 64
                      st == yw % 2^d # 0
                  IN  FRound(a.m * 64 - yw \div 2^d - (IF st THEN 1 ELSE 0),
                             a.e - 6, st)

\* a * b for finite a, b with a product below 2^18 (the animator multiplies
\* values of [0, 1] only).
FMul(a, b) ==
    IF a.k = "nan" \/ b.k = "nan" THEN FNaN
    ELSE IF a.m = 0 \/ b.m = 0 THEN FZero
    ELSE LET a1  == a.m \div 4096
             a0  == a.m % 4096
             b1  == b.m \div 4096
             b0  == b.m % 4096
             mid == a1 * b0 + a0 * b1
             lt  == (mid % 4096) * 4096 + a0 * b0
             h   == a1 * b1 + mid \div 4096 + lt \div 2^24
             l   == lt % 2^24
         IN  FRound(h * 64 + l \div 2^18, a.e + b.e + 18, l % 2^18 # 0)

\* 2.0 * a.
FDouble(a) ==
    IF a.k # "fin" THEN a
    ELSE IF a.m < 2^(MantBits - 1) THEN FRound(2 * a.m, a.e, FALSE)
    ELSE IF a.e + 1 > MaxExp THEN FInf
    ELSE Fin(a.m, a.e + 1)

\* a >= 1.0 (false for NaN).
FGeOne(a) == a.k = "inf" \/ (a.k = "fin" /\ ~FLess(a, FOne))

\* a < 0.5 (false for NaN).
FLtHalf(a) == a.k = "fin" /\ FLess(a, FHalf)

\* -a for a finite a > 0.
FNeg(a) == [k |-> "neg", m |-> a.m, e |-> a.e]

\* t.clamp(0.0, 1.0): NaN stays NaN.
FClamp01(t) ==
    IF t.k = "nan" THEN FNaN
    ELSE IF t.k = "neg" THEN FZero
    ELSE IF FGeOne(t) THEN FOne
    ELSE t

(***************************************************************************)
(* Option<T>.                                                              *)
(***************************************************************************)
None == [some |-> FALSE]

Some(v) == [some |-> TRUE, v |-> v]

(***************************************************************************)
(* CursorThemeConfig: cursors maps a cursor id to its CursorDefinition,    *)
(* transitions maps the key "from->to" to its TransitionConfig.            *)
(***************************************************************************)
CursorDefinition(format, file, hotspot, loop_mode) ==
    [format |-> format, file |-> file, hotspot |-> hotspot,
     loop_mode |-> loop_mode]

TransitionConfig(duration_ms, easing) ==
    [duration_ms |-> duration_ms, easing |-> easing]

CursorThemeConfig(cursors, transitions) ==
    [cursors |-> cursors, transitions |-> transitions]

default_duration == U32(200)

default_easing == "easeinout"

get_cursor(config, cursor_id) ==
    IF cursor_id \in DOMAIN config.cursors
    THEN Some(config.cursors[cursor_id])
    ELSE None

TransitionKey(from_id, to_id) == from_id \o "->" \o to_id

get_transition(config, from_id, to_id) ==
    IF TransitionKey(from_id, to_id) \in DOMAIN config.transitions
    THEN Some(config.transitions[TransitionKey(from_id, to_id)])
    ELSE None

(***************************************************************************)
(* TransitionState and the animator.                                       *)
(***************************************************************************)
Static == [tag |-> "Static"]

Animated(cursor_id, start_time_ms, loop_mode) ==
    [tag |-> "Animated", cursor_id |-> cursor_id,
     start_time_ms |-> start_time_ms, loop_mode |-> loop_mode]

Transitioning(from_id, to_id, progress) ==
    [tag |-> "Transitioning", from_id |-> from_id, to_id |-> to_id,
     progress |-> progress]

\* The match on loop_mode.as_deref() of new and set_cursor.
ParseLoopMode(loop_mode) ==
    IF ~loop_mode.some THEN "Loop"
    ELSE CASE loop_mode.v = "once" -> "Once"
           [] loop_mode.v = "loop" -> "Loop"
           [] loop_mode.v = "bounce" -> "Bounce"
           [] OTHER -> "Loop"

\* CursorAnimator::new that ignores the loop mode declared for "default".
AnimatorNew_AlwaysLoop(config) ==
    IF get_cursor(config, "default").some
    THEN Animated("default", U32Zero, "Loop")
    ELSE Static

AnimatorNew(config) ==
    IF get_cursor(config, "default").some
    THEN Animated("default", U32Zero,
                  ParseLoopMode(get_cursor(config, "default").v.loop_mode))
    ELSE Static

\* from_id of set_cursor: the cursor the state shows or heads for.
CurrentTarget(state) ==
    CASE state.tag = "Static" -> None
      [] state.tag = "Animated" -> Some(state.cursor_id)
      [] state.tag = "Transitioning" -> Some(state.to_id)

\* set_cursor without the early return on the current target.
set_cursor_NoEarlyReturn(config, state, cursor_id) ==
    LET from == CurrentTarget(state)
    IN  IF from.some /\ get_transition(config, from.v, cursor_id).some
        THEN Transitioning(from.v, cursor_id, FZero)
        ELSE IF get_cursor(config, cursor_id).some
        THEN Animated(cursor_id, U32Zero,
                      ParseLoopMode(get_cursor(config, cursor_id).v.loop_mode))
        ELSE Static

\* set_cursor that enters a transition only to a defined cursor.
set_cursor_DefinedOnly(config, state, cursor_id) ==
    LET from == CurrentTarget(state)
    IN  IF from.some /\ from.v = cursor_id
        THEN state
        ELSE IF /\ from.some
                /\ get_transition(config, from.v, cursor_id).some
                /\ get_cursor(config, cursor_id).some
        THEN Transitioning(from.v, cursor_id, FZero)
        ELSE IF get_cursor(config, cursor_id).some
        THEN Animated(cursor_id, U32Zero,
                      ParseLoopMode(get_cursor(config, cursor_id).v.loop_mode))
        ELSE Static

\* set_cursor that enters a transition without looking it up in the config.
set_cursor_AnyTransition(config, state, cursor_id) ==
    LET from == CurrentTarget(state)
    IN  IF from.some /\ from.v = cursor_id
        THEN state
        ELSE IF from.some
        THEN Transitioning(from.v, cursor_id, FZero)
        ELSE IF get_cursor(config, cursor_id).some
        THEN Animated(cursor_id, U32Zero,
                      ParseLoopMode(get_cursor(config, cursor_id).v.loop_mode))
        ELSE Static

set_cursor(config, state, cursor_id) ==
    LET from == CurrentTarget(state)
    IN  IF from.some /\ from.v = cursor_id
        THEN state
        ELSE IF from.some /\ get_transition(config, from.v, cursor_id).some
        THEN Transitioning(from.v, cursor_id, FZero)
        ELSE IF get_cursor(config, cursor_id).some
        THEN Animated(cursor_id, U32Zero,
                      ParseLoopMode(get_cursor(config, cursor_id).v.loop_mode))
        ELSE Static

\* (1.0 - t).powi(2) and t * t.
FSquare(t) == FMul(t, t)

EaseInOutBranches(t) ==
    IF FLtHalf(t)
    THEN FMul(FDouble(t), t)
    ELSE FSub(FOne, FDouble(FSquare(FSub(FOne, t))))

\* 2^(-10 t) * sin((10 t - 0.75) * c4) + 1 for 0 < t < 1: powf and sin are
\* not evaluated, the value is kept as the point of the curve at t.
ElasticCurve(t) == [k |-> "elastic", t |-> t]

\* apply_easing whose Linear arm returns its input as given.
apply_easing_LinearUnclamped(t0, easing) ==
    LET t == FClamp01(t0)
    IN  IF easing = "linear" THEN t0
        ELSE IF t.k = "nan" THEN FNaN
        ELSE CASE easing = "easein" -> FMul(t, t)
               [] easing = "easeout" ->
                    FSub(FOne, FMul(FSub(FOne, t), FSub(FOne, t)))
               [] easing = "easeinout" -> EaseInOutBranches(t)
               [] easing = "easeinquad" -> FMul(t, t)
               [] easing = "easeoutquad" -> FSub(FOne, FSquare(FSub(FOne, t)))
               [] easing = "easeinoutquad" -> EaseInOutBranches(t)
               [] easing = "elastic" ->
                    IF t = FZero THEN FZero
                    ELSE IF t = FOne THEN FOne
                    ELSE ElasticCurve(t)

apply_easing(t0, easing) ==
    LET t == FClamp01(t0)
    IN  IF t.k = "nan" THEN FNaN
        ELSE CASE easing = "linear" -> t
               [] easing = "easein" -> FMul(t, t)
               [] easing = "easeout" ->
                    FSub(FOne, FMul(FSub(FOne, t), FSub(FOne, t)))
               [] easing = "easeinout" -> EaseInOutBranches(t)
               [] easing = "easeinquad" -> FMul(t, t)
               [] easing = "easeoutquad" -> FSub(FOne, FSquare(FSub(FOne, t)))
               [] easing = "easeinoutquad" -> EaseInOutBranches(t)
               [] easing = "elastic" ->
                    IF t = FZero THEN FZero
                    ELSE IF t = FOne THEN FOne
                    ELSE ElasticCurve(t)

\* update in which a completed transition takes the loop mode its target declares.
UpdateTransitioning_DeclaredLoop(config, state, elapsed_ms) ==
    LET tc == get_transition(config, state.from_id, state.to_id)
    IN  IF ~tc.some
        THEN Static
        ELSE LET new_progress ==
                     FAdd(state.progress,
                          FDiv(F32FromU32(elapsed_ms),
                               F32FromU32(tc.v.duration_ms)))
             IN  IF FGeOne(new_progress)
                 THEN Animated(state.to_id, U32Zero,
                               IF get_cursor(config, state.to_id).some
                               THEN ParseLoopMode(
                                   get_cursor(config, state.to_id).v.loop_mode)
                               ELSE "Loop")
                 ELSE Transitioning(state.from_id, state.to_id,
                                    apply_easing(new_progress, tc.v.easing))

\* The Transitioning arm of update.
UpdateTransitioning(config, state, elapsed_ms) ==
    LET tc == get_transition(config, state.from_id, state.to_id)
    IN  IF ~tc.some
        THEN Static
        ELSE LET new_progress ==
                     FAdd(state.progress,
                          FDiv(F32FromU32(elapsed_ms),
                               F32FromU32(tc.v.duration_ms)))
             IN  IF FGeOne(new_progress)
                 THEN Animated(state.to_id, U32Zero, "Loop")
                 ELSE Transitioning(state.from_id, state.to_id,
                                    apply_easing(new_progress, tc.v.easing))

\* Whether the Animated arm of update adds to start_time_ms.
AdvancesPlayhead(config, state) ==
    /\ state.tag = "Animated"
    /\ get_cursor(config, state.cursor_id).some
    /\ get_cursor(config, state.cursor_id).v.format = "lottie"

\* The outcomes of update: [state, panicked].  start_time_ms + elapsed_ms is
\* an unchecked u32 addition: when it exceeds the u32 range the build
\* decides between a panic (overflow checks on) and the wrapped sum.
update(config, state, elapsed_ms) ==
    CASE state.tag = "Transitioning" ->
           {[state |-> UpdateTransitioning(config, state, elapsed_ms),
             panicked |-> FALSE]}
      [] state.tag = "Animated" ->
           IF AdvancesPlayhead(config, state)
           THEN IF U32Overflows(state.start_time_ms, elapsed_ms)
                THEN {[state |-> state, panicked |-> TRUE],
                      [state |-> Animated(state.cursor_id,
                                          U32WrappingAdd(state.start_time_ms,
                                                         elapsed_ms),
                                          state.loop_mode),
                       panicked |-> FALSE]}
                ELSE {[state |-> Animated(state.cursor_id,
                                          U32WrappingAdd(state.start_time_ms,
                                                         elapsed_ms),
                                          state.loop_mode),
                       panicked |-> FALSE]}
           ELSE {[state |-> state, panicked |-> FALSE]}
      [] state.tag = "Static" -> {[state |-> state, panicked |-> FALSE]}

(***************************************************************************)
(* Raster cursors (XCursor).  A theme maps an icon file name to what       *)
(* loading that file meets: no such icon, an unreadable file, a file       *)
(* parse_xcursor rejects, or the images parse_xcursor returns (the list    *)
(* is empty for a file that holds no image chunk).                         *)
(***************************************************************************)
NoIcon == [kind |-> "missing"]

Unreadable == [kind |-> "unreadable"]

Unparsable == [kind |-> "unparsable"]

Parsed(images) == [kind |-> "images", images |-> images]

Image(nominal, width, height, delay, pixels) ==
    [size |-> nominal, width |-> width, height |-> height, delay |-> delay,
     pixels |-> pixels]

XCursor(images, animation_duration) ==
    [images |-> images, animation_duration |-> animation_duration]

\* CursorIcon::name and CursorIcon::alt_names for the icons of the model.
IconName(icon) ==
    CASE icon = "Default" -> "default"
      [] icon = "Wait" -> "wait"
      [] icon = "Progress" -> "progress"

IconAltNames(icon) ==
    CASE icon = "Default" -> <<"left_ptr">>
      [] icon = "Wait" -> <<"watch">>
      [] icon = "Progress" -> <<"left_ptr_watch", "half-busy">>

Abs(n) == IF n < 0 THEN 0 - n ELSE n

RECURSIVE SumDelays(_)
SumDelays(images) ==
    IF images = << >> THEN 0
    ELSE Head(images).delay + SumDelays(Tail(images))

\* min_by_key(|size - image.size|): the first of the closest images.
ClosestImage(images, wanted) ==
    images[CHOOSE i \in 1..Len(images) :
              /\ \A j \in 1..Len(images) :
                    Abs(wanted - images[i].size) <= Abs(wanted - images[j].size)
              /\ \A j \in 1..(i - 1) :
                    Abs(wanted - images[i].size) < Abs(wanted - images[j].size)]

SameDimensions(best, image) ==
    image.width = best.width /\ image.height = best.height

\* [r |-> "err"], [r |-> "panic"] (the unwrap of the closest image of an
\* empty list) or [r |-> "ok", cursor].
load_xcursor(th, name, wanted) ==
    LET content == IF name \in DOMAIN th THEN th[name] ELSE NoIcon
    IN  IF content.kind # "images" THEN [r |-> "err"]
        ELSE IF content.images = << >> THEN [r |-> "panic"]
        ELSE LET best == ClosestImage(content.images, wanted)
                 kept == SelectSeq(content.images,
                                   LAMBDA image : SameDimensions(best, image))
             IN  [r |-> "ok", cursor |-> XCursor(kept, SumDelays(kept))]

fallback_cursor == XCursor(<<Image(32, 64, 64, 0, "cursor.rgba")>>, 0)

RECURSIVE TryAltNames(_, _, _, _)
\* The loop over icon.alt_names(): [r, cursor, loads].
TryAltNames(th, names, wanted, loads) ==
    IF names = << >> THEN [r |-> "err", loads |-> loads]
    ELSE LET Next(got, now) ==
                 IF got.r = "err"
                 THEN TryAltNames(th, Tail(names), wanted, now)
                 ELSE [r |-> got.r, loads |-> now] @@ got
         IN  Next(load_xcursor(th, Head(names), wanted),
                  Append(loads, Head(names)))

\* LoadNamedCursor with the fallback asset given to every icon.
LoadNamedCursor_FallbackForAll(th, sz, icon, scale) ==
    LET Alternates(primary) ==
            IF primary.r = "err"
            THEN TryAltNames(th, IconAltNames(icon), sz * scale,
                             <<IconName(icon)>>)
            ELSE [r |-> primary.r, loads |-> <<IconName(icon)>>] @@ primary
        Fallback(tried) ==
            IF tried.r = "err"
            THEN [r |-> "ok", cursor |-> fallback_cursor,
                  loads |-> tried.loads]
            ELSE tried
    IN  Fallback(Alternates(load_xcursor(th, IconName(icon), sz * scale)))

\* The closure of get_cursor_with_name: [r, cursor, loads].
LoadNamedCursor(th, sz, icon, scale) ==
    LET Alternates(primary) ==
            IF primary.r = "err"
            THEN TryAltNames(th, IconAltNames(icon), sz * scale,
                             <<IconName(icon)>>)
            ELSE [r |-> primary.r, loads |-> <<IconName(icon)>>] @@ primary
        Fallback(tried) ==
            IF icon = "Default" /\ tried.r = "err"
            THEN [r |-> "ok", cursor |-> fallback_cursor,
                  loads |-> tried.loads]
            ELSE tried
    IN  Fallback(Alternates(load_xcursor(th, IconName(icon), sz * scale)))

\* Rc::new: a handle distinct from every live one.
FreshRc(live) == CHOOSE n \in 1..(Cardinality(live) + 1) : n \notin live

Shared(value, rc) == [rc |-> rc] @@ value

\* get_cursor_with_name that keeps only the icons that resolved.
get_cursor_with_name_SuccessOnly(cache, th, sz, icon, scale) ==
    IF <<icon, scale>> \in DOMAIN cache
    THEN [ret |-> cache[<<icon, scale>>], cache |-> cache, loads |-> << >>,
          panicked |-> FALSE]
    ELSE LET Insert(got) ==
                 IF got.r = "panic"
                 THEN [ret |-> None, cache |-> cache, loads |-> got.loads,
                       panicked |-> TRUE]
                 ELSE IF got.r = "ok"
                 THEN [ret |-> Some(got.cursor),
                       cache |-> (<<icon, scale>> :> Some(got.cursor))
                                 @@ cache,
                       loads |-> got.loads, panicked |-> FALSE]
                 ELSE [ret |-> None, cache |-> cache, loads |-> got.loads,
                       panicked |-> FALSE]
         IN  Insert(LoadNamedCursor(th, sz, icon, scale))

\* get_cursor_with_name: [ret, cache, loads, panicked].
get_cursor_with_name(cache, th, sz, icon, scale) ==
    IF <<icon, scale>> \in DOMAIN cache
    THEN [ret |-> cache[<<icon, scale>>], cache |-> cache, loads |-> << >>,
          panicked |-> FALSE]
    ELSE LET Entry(got) == IF got.r = "ok" THEN Some(got.cursor) ELSE None
             Insert(got) ==
                 IF got.r = "panic"
                 THEN [ret |-> None, cache |-> cache, loads |-> got.loads,
                       panicked |-> TRUE]
                 ELSE [ret |-> Entry(got),
                       cache |-> (<<icon, scale>> :> Entry(got)) @@ cache,
                       loads |-> got.loads, panicked |-> FALSE]
         IN  Insert(LoadNamedCursor(th, sz, icon, scale))

\* get_default_cursor: get_cursor_with_name(Default, scale).unwrap().
get_default_cursor(cache, th, sz, scale) ==
    LET Unwrap(got) ==
            IF got.panicked \/ got.ret.some THEN got
            ELSE [got EXCEPT !.panicked = TRUE]
    IN  Unwrap(get_cursor_with_name(cache, th, sz, "Default", scale))

\* cursor, or the default cursor when the icon does not resolve.
NamedOrDefault(cache, th, sz, icon, scale) ==
    LET WithDefault(got, dflt) ==
            [icon |-> "Default", ret |-> dflt.ret, cache |-> dflt.cache,
             loads |-> got.loads \o dflt.loads, panicked |-> dflt.panicked]
        OrDefault(got) ==
            IF got.panicked \/ got.ret.some
            THEN [icon |-> icon] @@ got
            ELSE WithDefault(got,
                             get_default_cursor(got.cache, th, sz, scale))
    IN  OrDefault(get_cursor_with_name(cache, th, sz, icon, scale))

is_animated_cursor(cursor) == Len(cursor.images) > 1

RECURSIVE FrameWalk(_, _, _)
\* The loop of XCursor::frame from the i-th image on: the index (from 0) of
\* the image at which millis runs out, 0 when the loop ends without one.
FrameWalk(images, i, millis) ==
    IF i > Len(images) THEN 0
    ELSE IF millis < images[i].delay THEN i - 1
    ELSE FrameWalk(images, i + 1, millis - images[i].delay)

RECURSIVE FrameWalk_Inclusive(_, _, _)
\* FrameWalk that stays on an image until millis exceeds its delay.
FrameWalk_Inclusive(images, i, millis) ==
    IF i > Len(images) THEN 0
    ELSE IF millis <= images[i].delay THEN i - 1
    ELSE FrameWalk_Inclusive(images, i + 1, millis - images[i].delay)

\* XCursor::frame with the inclusive walk.
XCursorFrame_Inclusive(cursor, millis) ==
    IF cursor.animation_duration = 0 THEN 0
    ELSE FrameWalk_Inclusive(cursor.images, 1,
                             millis % cursor.animation_duration)

\* XCursor::frame without the wrap of millis.
XCursorFrame_NoWrap(cursor, millis) ==
    IF cursor.animation_duration = 0 THEN 0
    ELSE FrameWalk(cursor.images, 1, millis)

\* XCursor::frame: the index (from 0) of the image to show at millis.
XCursorFrame(cursor, millis) ==
    IF cursor.animation_duration = 0 THEN 0
    ELSE FrameWalk(cursor.images, 1, millis % cursor.animation_duration)

(***************************************************************************)
(* Vector renderers and the renderer store.  The theme directory maps a    *)
(* file name to its content: no such file, text that is neither SVG nor    *)
(* JSON, an SVG document (oversize: no pixmap of its scaled size can be    *)
(* created), or a JSON document with out-point op.                         *)
(***************************************************************************)
NoFile == [kind |-> "missing"]

Garbage == [kind |-> "garbage"]

SvgDocument(oversize) == [kind |-> "svg", oversize |-> oversize]

JsonDocument(op) == [kind |-> "json", op |-> op]

FileContent(fs, file) == IF file \in DOMAIN fs THEN fs[file] ELSE NoFile

\* SvgRenderer::new after fs::read_to_string: [ok, renderer].
load_svg_renderer(fs, cursor_id, cursor_def) ==
    LET content == FileContent(fs, cursor_def.file)
    IN  IF content.kind # "svg" THEN [ok |-> FALSE]
        ELSE [ok |-> TRUE,
              renderer |-> [cursor_id |-> cursor_id, format |-> "svg",
                            hotspot |-> cursor_def.hotspot,
                            total_frames |-> 1,
                            oversize |-> content.oversize]]

\* LottieRenderer::new after fs::read_to_string: [ok, renderer].
load_lottie_renderer(fs, cursor_id, cursor_def) ==
    LET content == FileContent(fs, cursor_def.file)
    IN  IF content.kind # "json" THEN [ok |-> FALSE]
        ELSE [ok |-> TRUE,
              renderer |-> [cursor_id |-> cursor_id, format |-> "lottie",
                            hotspot |-> cursor_def.hotspot,
                            total_frames |-> content.op,
                            oversize |-> FALSE]]

RendererRcs(cache) == {cache[k].rc : k \in DOMAIN cache}

\* CachedOrLoad without the insert.
CachedOrLoad_NoInsert(cache, loaded, cursor_id, file, live) ==
    IF cursor_id \in DOMAIN cache
    THEN [ok |-> TRUE, renderer |-> cache[cursor_id], cache |-> cache,
          reads |-> << >>]
    ELSE IF ~loaded.ok
    THEN [ok |-> FALSE, cache |-> cache, reads |-> <<file>>]
    ELSE [ok |-> TRUE, renderer |-> Shared(loaded.renderer, FreshRc(live)),
          cache |-> cache, reads |-> <<file>>]

\* CachedOrLoad that empties the cache when the load fails.
CachedOrLoad_ResetOnError(cache, loaded, cursor_id, file, live) ==
    IF cursor_id \in DOMAIN cache
    THEN [ok |-> TRUE, renderer |-> cache[cursor_id], cache |-> cache,
          reads |-> << >>]
    ELSE IF ~loaded.ok
    THEN [ok |-> FALSE, cache |-> << >>, reads |-> <<file>>]
    ELSE LET renderer == Shared(loaded.renderer, FreshRc(live))
         IN  [ok |-> TRUE, renderer |-> renderer,
              cache |-> (cursor_id :> renderer) @@ cache,
              reads |-> <<file>>]

\* One arm of the match of get_renderer on a cache: [ok, renderer, cache,
\* reads].
CachedOrLoad(cache, loaded, cursor_id, file, live) ==
    IF cursor_id \in DOMAIN cache
    THEN [ok |-> TRUE, renderer |-> cache[cursor_id], cache |-> cache,
          reads |-> << >>]
    ELSE IF ~loaded.ok
    THEN [ok |-> FALSE, cache |-> cache, reads |-> <<file>>]
    ELSE LET renderer == Shared(loaded.renderer, FreshRc(live))
         IN  [ok |-> TRUE, renderer |-> renderer,
              cache |-> (cursor_id :> renderer) @@ cache,
              reads |-> <<file>>]

\* get_renderer that keeps the renderers of both formats in one cache.
get_renderer_OneCache(cfg, svgs, lotties, fs, held, cursor_id) ==
    LET cursor_def == get_cursor(cfg, cursor_id)
        live == RendererRcs(svgs) \cup RendererRcs(lotties) \cup held
        InSvg(got) ==
            [svg_cache |-> got.cache, lottie_cache |-> lotties] @@ got
    IN  IF ~cursor_def.some
        THEN [ok |-> FALSE, svg_cache |-> svgs, lottie_cache |-> lotties,
              reads |-> << >>]
        ELSE IF cursor_def.v.format = "svg"
        THEN InSvg(CachedOrLoad(svgs,
                       load_svg_renderer(fs, cursor_id, cursor_def.v),
                       cursor_id, cursor_def.v.file, live))
        ELSE InSvg(CachedOrLoad(svgs,
                       load_lottie_renderer(fs, cursor_id, cursor_def.v),
                       cursor_id, cursor_def.v.file, live))

\* get_renderer: [ok, renderer, svg_cache, lottie_cache, reads]; `held` are
\* the renderer handles callers still hold.
get_renderer(cfg, svgs, lotties, fs, held, cursor_id) ==
    LET cursor_def == get_cursor(cfg, cursor_id)
        live == RendererRcs(svgs) \cup RendererRcs(lotties) \cup held
    IN  IF ~cursor_def.some
        THEN [ok |-> FALSE, svg_cache |-> svgs, lottie_cache |-> lotties,
              reads |-> << >>]
        ELSE IF cursor_def.v.format = "svg"
        THEN LET InSvg(got) ==
                     [svg_cache |-> got.cache, lottie_cache |-> lotties] @@ got
             IN  InSvg(CachedOrLoad(svgs,
                           load_svg_renderer(fs, cursor_id, cursor_def.v),
                           cursor_id, cursor_def.v.file, live))
        ELSE LET InLottie(got) ==
                     [svg_cache |-> svgs, lottie_cache |-> got.cache] @@ got
             IN  InLottie(CachedOrLoad(lotties,
                              load_lottie_renderer(fs, cursor_id, cursor_def.v),
                              cursor_id, cursor_def.v.file, live))

\* Point::new(hx * scale, hy * scale).to_physical(scale).
ScaledHotspot(hotspot, scale) ==
    IF hotspot.some
    THEN <<(hotspot.v[1] * scale) * scale, (hotspot.v[2] * scale) * scale>>
    ELSE <<0, 0>>

\* ActualFrame that draws the requested frame as it is.
ActualFrame_Unwrapped(renderer, frame) ==
    IF renderer.format = "svg" THEN 0 ELSE frame

\* The frame a renderer draws for a requested frame.
ActualFrame(renderer, frame) ==
    IF renderer.format = "svg" THEN 0
    ELSE IF renderer.total_frames > 0 THEN frame % renderer.total_frames
    ELSE 0

\* VectorRenderer::render_frame: [ok, hotspot, buffer].
render_frame(renderer, frame, scale) ==
    IF renderer.format = "svg" /\ renderer.oversize
    THEN [ok |-> FALSE]
    ELSE [ok |-> TRUE,
          hotspot |-> ScaledHotspot(renderer.hotspot, scale),
          buffer |-> [cursor_id |-> renderer.cursor_id,
                      frame |-> ActualFrame(renderer, frame),
                      scale |-> scale]]

(***************************************************************************)
(* The cursor manager.                                                     *)
(***************************************************************************)
Hidden == [tag |-> "Hidden"]

Surface(surface) == [tag |-> "Surface", surface |-> surface]

Named(icon) == [tag |-> "Named", icon |-> icon]

default_named == Named("Default")

\* The hotspot a surface carries in its CursorImageSurfaceData.
SurfaceHotspot(surface) == <<3, 5>>

\* cur_buf::get_cursor_surface, a placeholder that returns None.
get_cursor_surface == None

\* str::to_lowercase on the cursor ids of the model.
Lower(cursor_id) ==
    CASE cursor_id = "WAIT" -> "wait"
      [] cursor_id = "Left_Ptr" -> "left_ptr"
      [] OTHER -> cursor_id

\* The match of new_with_vector_theme on the lowercase id, for the icons of
\* the model.
IconOfAlias(icon_name) ==
    CASE icon_name \in {"default", "left_ptr"} -> Some("Default")
      [] icon_name \in {"wait", "watch"} -> Some("Wait")
      [] icon_name \in {"progress", "left_ptr_watch"} -> Some("Progress")
      [] OTHER -> None

AliasesOf(cfg, icon) ==
    {id \in DOMAIN cfg.cursors : IconOfAlias(Lower(id)) = Some(icon)}

MappedIcons(cfg) ==
    {icon \in {"Default", "Wait", "Progress"} : AliasesOf(cfg, icon) # {}}

\* The maps the loop over config.cursors can build: a HashMap is iterated
\* in an arbitrary order and the last id inserted for an icon stays.
IconMaps(cfg) ==
    {m \in [MappedIcons(cfg) -> DOMAIN cfg.cursors] :
        \A icon \in MappedIcons(cfg) : m[icon] \in AliasesOf(cfg, icon)}

\* The cursor a transition leaves.
SourceOf(state) ==
    IF state.tag = "Transitioning" THEN state.from_id
    ELSE CurrentTarget(state).v

\* get_vector_cursor drawing the cursor a transition leaves.
get_vector_cursor_Source(cfg, state, svgs, lotties, fs, held, scale) ==
    IF state.tag = "Static"
    THEN [ok |-> FALSE, svg_cache |-> svgs, lottie_cache |-> lotties,
          reads |-> << >>]
    ELSE LET Failed(got) ==
                 [ok |-> FALSE, svg_cache |-> got.svg_cache,
                  lottie_cache |-> got.lottie_cache, reads |-> got.reads]
             Rendered(got, frame) ==
                 IF ~frame.ok THEN Failed(got)
                 ELSE [ok |-> TRUE,
                       ret |-> [kind |-> "Vector", hotspot |-> frame.hotspot,
                                buffer |-> frame.buffer],
                       svg_cache |-> got.svg_cache,
                       lottie_cache |-> got.lottie_cache,
                       reads |-> got.reads]
             Fetched(got) ==
                 IF ~got.ok THEN Failed(got)
                 ELSE Rendered(got, render_frame(got.renderer, 0, scale))
         IN  Fetched(get_renderer(cfg, svgs, lotties, fs, held,
                                  SourceOf(state)))

\* get_vector_cursor: [ok, ret, svg_cache, lottie_cache, reads].
get_vector_cursor(cfg, state, svgs, lotties, fs, held, scale) ==
    IF state.tag = "Static"
    THEN [ok |-> FALSE, svg_cache |-> svgs, lottie_cache |-> lotties,
          reads |-> << >>]
    ELSE LET Failed(got) ==
                 [ok |-> FALSE, svg_cache |-> got.svg_cache,
                  lottie_cache |-> got.lottie_cache, reads |-> got.reads]
             Rendered(got, frame) ==
                 IF ~frame.ok THEN Failed(got)
                 ELSE [ok |-> TRUE,
                       ret |-> [kind |-> "Vector", hotspot |-> frame.hotspot,
                                buffer |-> frame.buffer],
                       svg_cache |-> got.svg_cache,
                       lottie_cache |-> got.lottie_cache,
                       reads |-> got.reads]
             Fetched(got) ==
                 IF ~got.ok THEN Failed(got)
                 ELSE Rendered(got, render_frame(got.renderer, 0, scale))
         IN  Fetched(get_renderer(cfg, svgs, lotties, fs, held,
                                  CurrentTarget(state).v))

\* get_render_cursor_named: [ret, cache, loads, panicked].
get_render_cursor_named(cache, th, sz, icon, scale) ==
    LET Render(got) ==
            [ret |-> IF got.panicked THEN [kind |-> "panic"]
                     ELSE [kind |-> "Named", icon |-> got.icon,
                           scale |-> scale, cursor |-> got.ret.v],
             cache |-> got.cache, loads |-> got.loads,
             panicked |-> got.panicked]
    IN  Render(NamedOrDefault(cache, th, sz, icon, scale))

\* The raster part of get_render_cursor: [ret, cache, loads, panicked].
RasterRenderCursor(status, cache, th, sz, scale) ==
    IF get_cursor_surface.some
    THEN [ret |-> [kind |-> "Surface", hotspot |-> <<0, 0>>,
                   surface |-> get_cursor_surface.v],
          cache |-> cache, loads |-> << >>, panicked |-> FALSE]
    ELSE CASE status.tag = "Hidden" ->
                [ret |-> [kind |-> "Hidden"], cache |-> cache,
                 loads |-> << >>, panicked |-> FALSE]
           [] status.tag = "Surface" ->
                [ret |-> [kind |-> "Surface",
                          hotspot |-> SurfaceHotspot(status.surface),
                          surface |-> status.surface],
                 cache |-> cache, loads |-> << >>, panicked |-> FALSE]
           [] status.tag = "Named" ->
                get_render_cursor_named(cache, th, sz, status.icon, scale)

(***************************************************************************)
(* State.                                                                  *)
(***************************************************************************)
VARIABLES
    config,              \* the parsed theme.toml shared by store and animator
    anim,                \* CursorAnimator::current_state
    vector_system,       \* CursorManager::vector_system is Some
    icon_to_vector_id,   \* CursorManager::icon_to_vector_id
    svg_cache,           \* VectorCursorStore::svg_cache
    lottie_cache,        \* VectorCursorStore::lottie_cache
    files,               \* the vector theme directory: file name -> content
    theme,               \* CursorManager::theme: icon file name -> content
    size,                \* CursorManager::size
    current_cursor,      \* CursorManager::current_cursor
    named_cursor_cache,  \* CursorManager::named_cursor_cache
    alive,               \* the surfaces that are alive
    texture_cache,       \* CursorTextureCache::cache
    served,              \* cursor id -> the renderer its first successful
                         \* get_renderer returned
    io,                  \* files the last call read, icons it tried to load
    aborted,             \* a panic has ended the program
    call,                \* the last call made
    ret,                 \* what the last call returned
    steps,               \* update calls since set_cursor last changed the state
    repeated,            \* the last call repeats the call before it
    script,              \* the calls a scripted run makes
    pc                   \* number of calls of the script made

animVars == <<config, anim>>

storeVars == <<svg_cache, lottie_cache, files, served>>

rasterVars ==
    <<theme, size, current_cursor, named_cursor_cache, alive, texture_cache>>

managerVars ==
    <<vector_system, icon_to_vector_id, storeVars, rasterVars, io>>

vars == <<config, anim, vector_system, icon_to_vector_id, svg_cache,
          lottie_cache, files, theme, size, current_cursor,
          named_cursor_cache, alive, texture_cache, served, io, aborted,
          call, ret, steps, repeated, script, pc>>

RetOk == [kind |-> "ok"]

RetPanic == [kind |-> "panic"]

NoIo == [reads |-> << >>, loads |-> << >>]

(***************************************************************************)
(* Bounds and inputs.                                                      *)
(***************************************************************************)
MaxSteps == 4

Empty == << >>

\* The cursor ids callers pass: two defined ones and one no config defines.
CursorIds == {"default", "wait", "ghost"}

Easings ==
    {"linear", "easein", "easeout", "easeinout", "easeinquad", "easeoutquad",
     "easeinoutquad"}

LoopModes == {None, Some("once"), Some("loop"), Some("bounce"), Some("spin")}

\* elapsed_ms values: 2^31 twice overflows start_time_ms.
BigElapsed == [hi |-> 32768, lo |-> 0]

ElapsedValues == {U32(0), U32(100), U32(150), U32(300), BigElapsed}

DurationValues == {U32(0), U32(100), U32(300), U32(1000)}

\* "default" (PathScene) and "wait" (KeyframeComposition), a transition
\* default->wait, one back, and one to an id that is not a cursor.
ThemeWith(loop_mode, duration_ms, easing) ==
    CursorThemeConfig(
        ("default" :> CursorDefinition("svg", "default.svg",
                                       Some(<<4, 4>>), loop_mode))
        @@ ("wait" :> CursorDefinition("lottie", "wait.json", None,
                                       loop_mode)),
        ("default->wait" :> TransitionConfig(duration_ms, easing))
        @@ ("wait->default" :> TransitionConfig(default_duration,
                                                default_easing))
        @@ ("default->ghost" :> TransitionConfig(U32(100), "linear")))

\* No cursor named "default"; transitions from a cursor to itself.
ThemeWithoutDefault ==
    CursorThemeConfig(
        ("wait" :> CursorDefinition("lottie", "wait.json", None,
                                    Some("once"))),
        ("wait->ghost" :> TransitionConfig(default_duration, default_easing))
        @@ ("wait->wait" :> TransitionConfig(default_duration, "linear"))
        @@ ("ghost->ghost" :> TransitionConfig(default_duration, "linear")))

\* The scenario of the specification: a transition default->wait of 300 ms
\* with the easing left at its default.
ScenarioConfig == ThemeWith(None, U32(300), default_easing)

AnimConfigs ==
    {ThemeWith(None, d, e) : d \in DurationValues, e \in Easings}
    \cup {ThemeWith(lm, U32(300), default_easing) : lm \in LoopModes}
    \cup {ThemeWithoutDefault}

SetCursorCall(id) == [op |-> "set_cursor", cursor_id |-> id]

UpdateCall(e) == [op |-> "update", elapsed_ms |-> e]

(***************************************************************************)
(* The animator on its own: new, then any set_cursor and update calls.     *)
(***************************************************************************)
ManagerIdle ==
    /\ vector_system = FALSE
    /\ icon_to_vector_id = Empty
    /\ svg_cache = Empty
    /\ lottie_cache = Empty
    /\ files = Empty
    /\ theme = Empty
    /\ size = 0
    /\ current_cursor = Hidden
    /\ named_cursor_cache = Empty
    /\ texture_cache = Empty
    /\ alive = {}
    /\ served = Empty
    /\ io = NoIo

InitAnim ==
    /\ config \in AnimConfigs
    /\ anim = AnimatorNew(config)
    /\ ManagerIdle
    /\ aborted = FALSE
    /\ call = [op |-> "new"]
    /\ ret = RetOk
    /\ steps = 0
    /\ repeated = FALSE
    /\ script = Empty
    /\ pc = 0

AnimSetCursor(id) ==
    /\ ~aborted
    /\ anim' = set_cursor(config, anim, id)
    /\ steps' = IF anim' = anim THEN steps ELSE 0
    /\ call' = SetCursorCall(id)
    /\ repeated' = (call' = call)
    /\ ret' = RetOk
    /\ UNCHANGED <<config, managerVars, aborted, script, pc>>

AnimUpdate(elapsed_ms) ==
    /\ ~aborted
    /\ steps < MaxSteps
    /\ \E o \in update(config, anim, elapsed_ms) :
          /\ anim' = o.state
          /\ aborted' = o.panicked
          /\ ret' = IF o.panicked THEN RetPanic ELSE RetOk
    /\ steps' = steps + 1
    /\ call' = UpdateCall(elapsed_ms)
    /\ repeated' = (call' = call)
    /\ UNCHANGED <<config, managerVars, script, pc>>

NextAnim ==
    \/ \E id \in CursorIds : AnimSetCursor(id)
    \/ \E e \in ElapsedValues : AnimUpdate(e)

SpecAnim == InitAnim /\ [][NextAnim]_vars

(***************************************************************************)
(* Scripted runs of the animator: new, one set_cursor, three updates.      *)
(***************************************************************************)
ScenarioElapsed == {U32(50), U32(100), U32(150)}

ScenarioConfigs ==
    {ThemeWith(None, d, e) : d \in {U32(200), U32(300)}, e \in Easings}

Scripts ==
    {<<SetCursorCall(id), UpdateCall(e1), UpdateCall(e2), UpdateCall(e3)>> :
        id \in {"wait", "ghost"}, e1 \in ScenarioElapsed,
        e2 \in ScenarioElapsed, e3 \in ScenarioElapsed}

InitScenario ==
    /\ config \in ScenarioConfigs
    /\ anim = AnimatorNew(config)
    /\ ManagerIdle
    /\ aborted = FALSE
    /\ call = [op |-> "new"]
    /\ ret = RetOk
    /\ steps = 0
    /\ repeated = FALSE
    /\ script \in Scripts
    /\ pc = 0

ScriptSetCursor ==
    /\ ~aborted
    /\ pc < Len(script)
    /\ script[pc + 1].op = "set_cursor"
    /\ anim' = set_cursor(config, anim, script[pc + 1].cursor_id)
    /\ pc' = pc + 1
    /\ call' = script[pc + 1]
    /\ repeated' = (call' = call)
    /\ ret' = RetOk
    /\ UNCHANGED <<config, managerVars, aborted, steps, script>>

ScriptUpdate ==
    /\ ~aborted
    /\ pc < Len(script)
    /\ script[pc + 1].op = "update"
    /\ \E o \in update(config, anim, script[pc + 1].elapsed_ms) :
          /\ anim' = o.state
          /\ aborted' = o.panicked
          /\ ret' = IF o.panicked THEN RetPanic ELSE RetOk
    /\ pc' = pc + 1
    /\ call' = script[pc + 1]
    /\ repeated' = (call' = call)
    /\ UNCHANGED <<config, managerVars, steps, script>>

NextScenario == ScriptSetCursor \/ ScriptUpdate

SpecScenario == InitScenario /\ [][NextScenario]_vars

(***************************************************************************)
(* The renderer store on its own: any get_renderer calls.                  *)
(***************************************************************************)
\* Three contents of the vector theme directory.
FilesGood ==
    ("default.svg" :> SvgDocument(FALSE)) @@ ("wait.json" :> JsonDocument(30))
    @@ ("left_ptr.svg" :> SvgDocument(FALSE))

FilesOversize ==
    ("default.svg" :> SvgDocument(TRUE)) @@ ("wait.json" :> JsonDocument(0))
    @@ ("left_ptr.svg" :> SvgDocument(FALSE))

FilesBroken ==
    ("default.svg" :> JsonDocument(30)) @@ ("wait.json" :> Garbage)

FileSystems == {FilesGood, FilesOversize, FilesBroken}

\* Two ids that are aliases of the icon Default, one of mixed case for Wait.
ThemeWithAliases ==
    CursorThemeConfig(
        ("default" :> CursorDefinition("svg", "default.svg",
                                       Some(<<4, 4>>), None))
        @@ ("left_ptr" :> CursorDefinition("svg", "left_ptr.svg",
                                           Some(<<1, 2>>), None))
        @@ ("WAIT" :> CursorDefinition("lottie", "wait.json",
                                       Some(<<8, 8>>), Some("bounce")))
        @@ ("ghost" :> CursorDefinition("svg", "ghost.svg", None, None)),
        ("default->WAIT" :> TransitionConfig(default_duration,
                                             default_easing))
        @@ ("WAIT->left_ptr" :> TransitionConfig(default_duration,
                                                 "linear")))

ManagerConfigs == {ScenarioConfig, ThemeWithoutDefault, ThemeWithAliases}

StoreIds == {"default", "wait", "left_ptr", "WAIT", "ghost"}

GetRendererCall(id) == [op |-> "get_renderer", cursor_id |-> id]

HeldRenderers(r) == IF r.kind = "renderer" THEN {r.renderer.rc} ELSE {}

InitStore ==
    /\ config \in ManagerConfigs
    /\ anim = Static
    /\ vector_system = TRUE
    /\ icon_to_vector_id = Empty
    /\ svg_cache = Empty
    /\ lottie_cache = Empty
    /\ files \in FileSystems
    /\ theme = Empty
    /\ size = 0
    /\ current_cursor = Hidden
    /\ named_cursor_cache = Empty
    /\ texture_cache = Empty
    /\ alive = {}
    /\ served = Empty
    /\ io = NoIo
    /\ aborted = FALSE
    /\ call = [op |-> "new"]
    /\ ret = RetOk
    /\ steps = 0
    /\ repeated = FALSE
    /\ script = Empty
    /\ pc = 0

StoreGetRenderer(id) ==
    /\ ~aborted
    /\ LET Returned(got) ==
               /\ svg_cache' = got.svg_cache
               /\ lottie_cache' = got.lottie_cache
               /\ ret' = IF got.ok
                         THEN [kind |-> "renderer", renderer |-> got.renderer]
                         ELSE [kind |-> "error"]
               /\ served' = IF got.ok /\ id \notin DOMAIN served
                            THEN (id :> got.renderer) @@ served
                            ELSE served
               /\ io' = [reads |-> got.reads, loads |-> << >>]
       IN  Returned(get_renderer(config, svg_cache, lottie_cache, files,
                                 HeldRenderers(ret), id))
    /\ call' = GetRendererCall(id)
    /\ repeated' = (call' = call)
    /\ UNCHANGED <<config, anim, vector_system, icon_to_vector_id, files,
                   rasterVars, aborted, steps, script, pc>>

NextStore == \E id \in StoreIds : StoreGetRenderer(id)

SpecStore == InitStore /\ [][NextStore]_vars

(***************************************************************************)
(* The cursor manager: new_with_vector_theme, then any calls.              *)
(***************************************************************************)
OneFrame(nominal, side) == Image(nominal, side, side, 0, "still")

\* Icon themes on disk: theme name -> icon file name -> content.
InstalledThemes ==
    [full |->
        ("default" :> Parsed(<<OneFrame(24, 24), OneFrame(48, 48)>>))
        @@ ("wait" :> Parsed(<<Image(24, 24, 24, 50, "a"),
                               Image(24, 24, 24, 70, "b"),
                               OneFrame(48, 48)>>))
        @@ ("half-busy" :> Parsed(<<OneFrame(24, 24)>>)),
     legacy |->
        ("left_ptr" :> Parsed(<<OneFrame(24, 24)>>))
        @@ ("watch" :> Parsed(<<OneFrame(32, 32)>>)),
     bare |-> Empty,
     corrupt |->
        ("default" :> Unreadable) @@ ("left_ptr" :> Unparsable)
        @@ ("wait" :> Unparsable),
     hollow |->
        ("default" :> Parsed(Empty))
        @@ ("watch" :> Parsed(<<OneFrame(24, 24)>>)),
     hollowalt |->
        ("left_ptr" :> Parsed(Empty)) @@ ("progress" :> Unreadable)
        @@ ("left_ptr_watch" :> Parsed(Empty))]

ThemeNames == DOMAIN InstalledThemes

\* CursorTheme::load: the icons the named theme provides.
LoadTheme(name) == InstalledThemes[name]

Sizes == {24, 48}

Scales == {1, 2}

Icons == {"Default", "Wait", "Progress"}

Surfaces == {"s1"}

Statuses ==
    {Hidden} \cup {Surface(s) : s \in Surfaces} \cup {Named(i) : i \in Icons}

\* The outcomes of load_vector_system: no path given or theme.toml missing
\* or invalid (None), or a store and an animator for the parsed config.
VectorSystems ==
    {[some |-> FALSE]} \cup {[some |-> TRUE, config |-> c] : c \in ManagerConfigs}

InitManagerWith(themes, sizes, systems, fss) ==
    /\ \E vs \in systems :
          /\ vector_system = vs.some
          /\ config = IF vs.some THEN vs.config
                      ELSE CursorThemeConfig(Empty, Empty)
    /\ anim = IF vector_system THEN AnimatorNew(config) ELSE Static
    /\ icon_to_vector_id \in IF vector_system THEN IconMaps(config)
                             ELSE {Empty}
    /\ svg_cache = Empty
    /\ lottie_cache = Empty
    /\ files \in IF vector_system THEN fss ELSE {Empty}
    /\ \E name \in themes : theme = LoadTheme(name)
    /\ size \in sizes
    /\ current_cursor = default_named
    /\ named_cursor_cache = Empty
    /\ texture_cache = Empty
    /\ alive = Surfaces
    /\ served = Empty
    /\ io = NoIo
    /\ aborted = FALSE
    /\ call = [op |-> "new"]
    /\ ret = RetOk
    /\ steps = 0
    /\ repeated = FALSE
    /\ script = Empty
    /\ pc = 0

\* set_cursor_image that keeps the old status when it moves the animator.
SetCursorImage_VectorReplaces(status) ==
    /\ ~aborted
    /\ status.tag = "Surface" => status.surface \in alive
    /\ anim' = IF /\ vector_system
                  /\ status.tag = "Named"
                  /\ status.icon \in DOMAIN icon_to_vector_id
               THEN set_cursor(config, anim, icon_to_vector_id[status.icon])
               ELSE anim
    /\ current_cursor' = IF /\ vector_system
                            /\ status.tag = "Named"
                            /\ status.icon \in DOMAIN icon_to_vector_id
                         THEN current_cursor
                         ELSE status
    /\ call' = [op |-> "set_cursor_image", status |-> status]
    /\ ret' = RetOk
    /\ io' = NoIo
    /\ repeated' = (call' = call)
    /\ UNCHANGED <<config, vector_system, icon_to_vector_id, storeVars, theme,
                   size, named_cursor_cache, alive, aborted, steps, script,
                   pc, texture_cache>>

\* set_cursor_image; a client sets a surface that is alive.
SetCursorImage(status) ==
    /\ ~aborted
    /\ status.tag = "Surface" => status.surface \in alive
    /\ anim' = IF /\ vector_system
                  /\ status.tag = "Named"
                  /\ status.icon \in DOMAIN icon_to_vector_id
               THEN set_cursor(config, anim, icon_to_vector_id[status.icon])
               ELSE anim
    /\ current_cursor' = status
    /\ call' = [op |-> "set_cursor_image", status |-> status]
    /\ ret' = RetOk
    /\ io' = NoIo
    /\ repeated' = (call' = call)
    /\ UNCHANGED <<config, vector_system, icon_to_vector_id, storeVars, theme,
                   size, named_cursor_cache, alive, aborted, steps, script,
                   pc, texture_cache>>

\* The vector attempt of get_render_cursor.
VectorAttempt(scale) ==
    IF vector_system
    THEN get_vector_cursor(config, anim, svg_cache, lottie_cache, files,
                           HeldRenderers(ret), scale)
    ELSE [ok |-> FALSE, svg_cache |-> svg_cache,
          lottie_cache |-> lottie_cache, reads |-> << >>]

GetRenderCursor(scale) ==
    /\ ~aborted
    /\ LET Fallback(vector, raster) ==
               /\ ret' = raster.ret
               /\ io' = [reads |-> vector.reads, loads |-> raster.loads]
               /\ named_cursor_cache' = raster.cache
               /\ aborted' = raster.panicked
           Attempted(vector) ==
               /\ svg_cache' = vector.svg_cache
               /\ lottie_cache' = vector.lottie_cache
               /\ IF vector.ok
                  THEN /\ ret' = vector.ret
                       /\ io' = [reads |-> vector.reads, loads |-> << >>]
                       /\ UNCHANGED <<named_cursor_cache, aborted,
                                      texture_cache>>
                  ELSE Fallback(vector,
                           RasterRenderCursor(current_cursor,
                               named_cursor_cache, theme, size, scale))
       IN  Attempted(VectorAttempt(scale))
    /\ call' = [op |-> "get_render_cursor", scale |-> scale]
    /\ repeated' = (call' = call)
    /\ UNCHANGED <<config, anim, vector_system, icon_to_vector_id, files,
                   served, theme, size, current_cursor, alive, steps, script,
                   pc, texture_cache>>

\* What a call that resolves raster cursors leaves behind.
RasterCallDone(op, got, value) ==
    /\ named_cursor_cache' = got.cache
    /\ aborted' = got.panicked
    /\ ret' = IF got.panicked THEN RetPanic ELSE value
    /\ io' = [reads |-> << >>, loads |-> got.loads]
    /\ call' = op
    /\ repeated' = (call' = call)
    /\ UNCHANGED <<config, anim, vector_system, icon_to_vector_id, storeVars,
                   theme, size, current_cursor, alive, steps, script, pc,
                   texture_cache>>

IsCurrentCursorAnimated(scale) ==
    /\ ~aborted
    /\ LET op == [op |-> "is_current_cursor_animated", scale |-> scale]
       IN  IF current_cursor.tag = "Named"
           THEN LET Answer(got) ==
                        RasterCallDone(op, got,
                            [kind |-> "bool",
                             v |-> is_animated_cursor(got.ret.v)])
                IN  Answer(NamedOrDefault(named_cursor_cache, theme, size,
                                          current_cursor.icon, scale))
           ELSE RasterCallDone(op,
                    [cache |-> named_cursor_cache, loads |-> << >>,
                     panicked |-> FALSE],
                    [kind |-> "bool", v |-> FALSE])

GetCursorWithName(icon, scale) ==
    /\ ~aborted
    /\ LET Answer(got) ==
               RasterCallDone([op |-> "get_cursor_with_name", icon |-> icon,
                               scale |-> scale],
                              got, [kind |-> "cursor", v |-> got.ret])
       IN  Answer(get_cursor_with_name(named_cursor_cache, theme, size,
                                       icon, scale))

GetDefaultCursor(scale) ==
    /\ ~aborted
    /\ LET Answer(got) ==
               RasterCallDone([op |-> "get_default_cursor", scale |-> scale],
                              got, [kind |-> "cursor", v |-> got.ret])
       IN  Answer(get_default_cursor(named_cursor_cache, theme, size, scale))

\* reload that leaves the raster cursor cache as it is.
Reload_KeepsCache(name, sz) ==
    /\ ~aborted
    /\ theme' = LoadTheme(name)
    /\ size' = sz
    /\ call' = [op |-> "reload", theme |-> name, size |-> sz]
    /\ ret' = RetOk
    /\ io' = NoIo
    /\ repeated' = (call' = call)
    /\ UNCHANGED <<config, anim, vector_system, icon_to_vector_id, storeVars,
                   current_cursor, named_cursor_cache, alive, aborted, steps,
                   script, pc, texture_cache>>

\* reload that also starts the animator over, as a rebuilt vector system would.
Reload_ResetsAnimator(name, sz) ==
    /\ ~aborted
    /\ theme' = LoadTheme(name)
    /\ size' = sz
    /\ named_cursor_cache' = Empty
    /\ anim' = IF vector_system THEN AnimatorNew(config) ELSE anim
    /\ call' = [op |-> "reload", theme |-> name, size |-> sz]
    /\ ret' = RetOk
    /\ io' = NoIo
    /\ repeated' = (call' = call)
    /\ UNCHANGED <<config, vector_system, icon_to_vector_id, storeVars,
                   current_cursor, alive, aborted, steps, script, pc,
                   texture_cache>>

Reload(name, sz) ==
    /\ ~aborted
    /\ theme' = LoadTheme(name)
    /\ size' = sz
    /\ named_cursor_cache' = Empty
    /\ call' = [op |-> "reload", theme |-> name, size |-> sz]
    /\ ret' = RetOk
    /\ io' = NoIo
    /\ repeated' = (call' = call)
    /\ UNCHANGED <<config, anim, vector_system, icon_to_vector_id, storeVars,
                   current_cursor, alive, aborted, steps, script, pc,
                   texture_cache>>

CheckCursorImageSurfaceAlive ==
    /\ ~aborted
    /\ current_cursor' = IF /\ current_cursor.tag = "Surface"
                            /\ current_cursor.surface \notin alive
                         THEN default_named
                         ELSE current_cursor
    /\ call' = [op |-> "check_cursor_image_surface_alive"]
    /\ ret' = RetOk
    /\ io' = NoIo
    /\ repeated' = (call' = call)
    /\ UNCHANGED <<config, anim, vector_system, icon_to_vector_id, storeVars,
                   theme, size, named_cursor_cache, alive, aborted, steps,
                   script, pc, texture_cache>>

\* A client destroys its cursor surface.
SurfaceDestroyed(surface) ==
    /\ ~aborted
    /\ surface \in alive
    /\ alive' = alive \ {surface}
    /\ UNCHANGED <<config, anim, vector_system, icon_to_vector_id, storeVars,
                   theme, size, current_cursor, named_cursor_cache, io,
                   aborted, call, ret, steps, repeated, script, pc,
                   texture_cache>>

\* The icon themes and the size of the runs that exercise the vector path.
ManagerThemes == {"full", "hollow"}

ManagerSizes == {24}

InitManager ==
    InitManagerWith(ManagerThemes, ManagerSizes, VectorSystems, FileSystems)

NextManager ==
    \/ \E status \in Statuses : SetCursorImage(status)
    \/ \E scale \in Scales : GetRenderCursor(scale)
    \/ IsCurrentCursorAnimated(1)
    \/ \E name \in ManagerThemes, sz \in ManagerSizes : Reload(name, sz)
    \/ CheckCursorImageSurfaceAlive
    \/ \E surface \in Surfaces : SurfaceDestroyed(surface)

SpecManager == InitManager /\ [][NextManager]_vars

(***************************************************************************)
(* The manager without a vector system: raster resolution over every icon  *)
(* theme and size.                                                         *)
(***************************************************************************)
InitRaster ==
    InitManagerWith(ThemeNames, Sizes, {[some |-> FALSE]}, {Empty})

NextRaster ==
    \/ \E icon \in Icons : SetCursorImage(Named(icon))
    \/ \E scale \in Scales : GetRenderCursor(scale)
    \/ \E scale \in Scales : IsCurrentCursorAnimated(scale)
    \/ \E icon \in Icons, scale \in Scales : GetCursorWithName(icon, scale)
    \/ \E scale \in Scales : GetDefaultCursor(scale)
    \/ \E name \in ThemeNames, sz \in Sizes : Reload(name, sz)

SpecRaster == InitRaster /\ [][NextRaster]_vars

(***************************************************************************)
(* The manager with a vector system across reloads of the icon theme.      *)
(***************************************************************************)
ReloadThemes == {"full", "legacy"}

InitReload ==
    InitManagerWith(ReloadThemes, Sizes,
                    {[some |-> TRUE, config |-> ScenarioConfig]}, {FilesGood})

NextReload ==
    \/ \E icon \in Icons : SetCursorImage(Named(icon))
    \/ \E scale \in Scales : GetRenderCursor(scale)
    \/ \E icon \in Icons, scale \in Scales : GetCursorWithName(icon, scale)
    \/ \E name \in ReloadThemes, sz \in Sizes : Reload(name, sz)

SpecReload == InitReload /\ [][NextReload]_vars

(***************************************************************************)
(* The manager under a render loop: the host draws a frame again and       *)
(* again, calling what the manager offers for it (get_render_cursor; the   *)
(* manager has no call that advances the animator), while clients set the  *)
(* cursor image.                                                           *)
(***************************************************************************)
InitRenderLoop ==
    InitManagerWith({"full"}, ManagerSizes,
                    {[some |-> TRUE, config |-> ScenarioConfig]},
                    {FilesGood})

RenderFrame == \E scale \in Scales : GetRenderCursor(scale)

NextRenderLoop ==
    \/ \E status \in Statuses : SetCursorImage(status)
    \/ RenderFrame

SpecRenderLoop ==
    InitRenderLoop /\ [][NextRenderLoop]_vars /\ WF_vars(RenderFrame)

(***************************************************************************)
(* Frame selection: a manager without a vector system loads the default    *)
(* cursor of a theme and asks the loaded frame set for the frame to show.  *)
(***************************************************************************)
MaxDelay == 2

MaxFrames == 3

MaxMillis == 8

Delays == 0..MaxDelay

\* An image of an animation, and one of another size in the same file.
Step(delay) == Image(24, 24, 24, delay, "step")

OtherSize == Image(48, 48, 48, 1, "large")

\* Image lists of up to MaxFrames images of one size, with any delays.
Animations ==
    UNION {[1..n -> {Step(d) : d \in Delays}] : n \in 1..MaxFrames}

FrameThemes ==
    {("default" :> Parsed(images)) : images \in Animations}
    \cup {("default" :> Parsed(<<OtherSize>> \o images)) :
             images \in Animations}

InitFrame ==
    /\ config = CursorThemeConfig(Empty, Empty)
    /\ anim = Static
    /\ vector_system = FALSE
    /\ icon_to_vector_id = Empty
    /\ svg_cache = Empty
    /\ lottie_cache = Empty
    /\ files = Empty
    /\ theme \in FrameThemes
    /\ size = 24
    /\ current_cursor = default_named
    /\ named_cursor_cache = Empty
    /\ texture_cache = Empty
    /\ alive = {}
    /\ served = Empty
    /\ io = NoIo
    /\ aborted = FALSE
    /\ call = [op |-> "new"]
    /\ ret = RetOk
    /\ steps = 0
    /\ repeated = FALSE
    /\ script = Empty
    /\ pc = 0

\* XCursor::frame on a frame set that get_cursor_with_name has returned.
Frame(key, millis) ==
    /\ ~aborted
    /\ key \in DOMAIN named_cursor_cache
    /\ named_cursor_cache[key].some
    /\ LET Shown(cursor, index) ==
               /\ call' = [op |-> "frame", cursor |-> cursor,
                           millis |-> millis]
               /\ ret' = [kind |-> "frame", index |-> index,
                          image |-> cursor.images[index + 1]]
       IN  Shown(named_cursor_cache[key].v,
                 XCursorFrame(named_cursor_cache[key].v, millis))
    /\ io' = NoIo
    /\ repeated' = (call' = call)
    /\ UNCHANGED <<config, anim, vector_system, icon_to_vector_id, storeVars,
                   rasterVars, aborted, steps, script, pc>>

NextFrame ==
    \/ GetCursorWithName("Default", 1)
    \/ \E millis \in 0..MaxMillis : Frame(<<"Default", 1>>, millis)

SpecFrame == InitFrame /\ [][NextFrame]_vars

(***************************************************************************)
(* The renderer caches under their locks: get_renderer in the steps at     *)
(* which it takes and gives up a cache lock, for two callers.  pc maps a   *)
(* caller to its position in get_renderer and the lock it holds there.     *)
(***************************************************************************)
Callers == {"a", "b"}

Idle == [at |-> "idle", lock |-> "none"]

LockIds == {"default", "wait", "ghost"}

\* The caller holds the lock of the cache of the format.
HoldsLock(caller, format) ==
    pc[caller].lock # "none" /\ pc[caller].format = format

CacheOf(format) == IF format = "svg" THEN svg_cache ELSE lottie_cache

\* The renderer handles alive: cached, returned last, or about to be
\* inserted.
LiveRcs ==
    RendererRcs(svg_cache) \cup RendererRcs(lottie_cache)
    \cup HeldRenderers(ret)
    \cup {pc[c].renderer.rc : c \in {d \in Callers : pc[d].at = "insert"}}

InitLock ==
    /\ config = ScenarioConfig
    /\ anim = Static
    /\ vector_system = TRUE
    /\ icon_to_vector_id = Empty
    /\ svg_cache = Empty
    /\ lottie_cache = Empty
    /\ files \in {FilesGood, FilesBroken}
    /\ theme = Empty
    /\ size = 0
    /\ current_cursor = Hidden
    /\ named_cursor_cache = Empty
    /\ texture_cache = Empty
    /\ alive = {}
    /\ served = Empty
    /\ io = NoIo
    /\ aborted = FALSE
    /\ call = [op |-> "new"]
    /\ ret = RetOk
    /\ steps = 0
    /\ repeated = FALSE
    /\ script = Empty
    /\ pc = [caller \in Callers |-> Idle]

\* What a step of get_renderer leaves alone besides the caches, pc and the
\* record of the call.
LockFrame ==
    UNCHANGED <<config, anim, vector_system, icon_to_vector_id, files,
                rasterVars, aborted, steps, script, repeated>>

\* The return of a renderer, which gives up the lock.
ReturnRenderer(caller, renderer) ==
    /\ ret' = [kind |-> "renderer", renderer |-> renderer]
    /\ served' = IF pc[caller].id \in DOMAIN served THEN served
                 ELSE (pc[caller].id :> renderer) @@ served
    /\ pc' = [pc EXCEPT ![caller] = Idle]

\* The call and config.get_cursor(cursor_id), "?" returning the error.
GetRendererEnter(caller, id) ==
    /\ ~aborted
    /\ pc[caller].at = "idle"
    /\ call' = GetRendererCall(id)
    /\ io' = NoIo
    /\ IF get_cursor(config, id).some
       THEN /\ pc' = [pc EXCEPT ![caller] =
                         [at |-> "write", lock |-> "none", id |-> id,
                          cursor_def |-> get_cursor(config, id).v,
                          format |-> get_cursor(config, id).v.format]]
            /\ ret' = ret
       ELSE /\ pc' = pc
            /\ ret' = [kind |-> "error"]
    /\ UNCHANGED <<svg_cache, lottie_cache, served, texture_cache>>
    /\ LockFrame

\* self.svg_cache.write() or self.lottie_cache.write(): waits until no
\* caller holds the lock of that cache.
GetRendererWrite(caller) ==
    /\ ~aborted
    /\ pc[caller].at = "write"
    /\ \A other \in Callers \ {caller} :
          ~HoldsLock(other, pc[caller].format)
    /\ pc' = [pc EXCEPT ![caller] = [at |-> "get", lock |-> "write"] @@ @]
    /\ UNCHANGED <<svg_cache, lottie_cache, served, io, call, ret,
                   texture_cache>>
    /\ LockFrame

\* cache.get(cursor_id): a hit returns the cached renderer.
GetRendererGet(caller) ==
    /\ ~aborted
    /\ pc[caller].at = "get"
    /\ IF pc[caller].id \in DOMAIN CacheOf(pc[caller].format)
       THEN ReturnRenderer(caller,
                           CacheOf(pc[caller].format)[pc[caller].id])
       ELSE /\ pc' = [pc EXCEPT ![caller] =
                         [at |-> "load", lock |-> @.lock] @@ @]
            /\ UNCHANGED <<ret, served, texture_cache>>
    /\ UNCHANGED <<svg_cache, lottie_cache, io, call, texture_cache>>
    /\ LockFrame

\* Rc::new(self.load_svg_renderer(..)?) or its lottie counterpart.
GetRendererLoad(caller) ==
    /\ ~aborted
    /\ pc[caller].at = "load"
    /\ LET Loaded(got) ==
               IF got.ok
               THEN /\ pc' = [pc EXCEPT ![caller] =
                                 [at |-> "insert", lock |-> @.lock,
                                  renderer |->
                                      Shared(got.renderer, FreshRc(LiveRcs))]
                                 @@ @]
                    /\ ret' = ret
               ELSE /\ pc' = [pc EXCEPT ![caller] = Idle]
                    /\ ret' = [kind |-> "error"]
       IN  Loaded(IF pc[caller].format = "svg"
                  THEN load_svg_renderer(files, pc[caller].id,
                                         pc[caller].cursor_def)
                  ELSE load_lottie_renderer(files, pc[caller].id,
                                            pc[caller].cursor_def))
    /\ io' = [reads |-> <<pc[caller].cursor_def.file>>, loads |-> << >>]
    /\ UNCHANGED <<svg_cache, lottie_cache, served, call, texture_cache>>
    /\ LockFrame

\* cache.insert(cursor_id, renderer.clone()) and the return.
GetRendererInsert(caller) ==
    /\ ~aborted
    /\ pc[caller].at = "insert"
    /\ IF pc[caller].format = "svg"
       THEN /\ svg_cache' = (pc[caller].id :> pc[caller].renderer)
                                @@ svg_cache
            /\ lottie_cache' = lottie_cache
       ELSE /\ lottie_cache' = (pc[caller].id :> pc[caller].renderer)
                                   @@ lottie_cache
            /\ svg_cache' = svg_cache
    /\ ReturnRenderer(caller, pc[caller].renderer)
    /\ UNCHANGED <<io, call, texture_cache>>
    /\ LockFrame

NextLock ==
    \E caller \in Callers :
        \/ \E id \in LockIds : GetRendererEnter(caller, id)
        \/ GetRendererWrite(caller)
        \/ GetRendererGet(caller)
        \/ GetRendererLoad(caller)
        \/ GetRendererInsert(caller)

SpecLock == InitLock /\ [][NextLock]_vars

(***************************************************************************)
(* Rendering: renderers fetched from the store draw any frame at any       *)
(* scale.                                                                  *)
(***************************************************************************)
MaxFrame == 7

\* The total frame counts ("op") of the KeyframeComposition document.
FrameCounts == {0, 1, 3}

RenderFiles(op) ==
    ("default.svg" :> SvgDocument(FALSE)) @@ ("wait.json" :> JsonDocument(op))
    @@ ("left_ptr.svg" :> SvgDocument(FALSE))
    @@ ("ghost.svg" :> SvgDocument(FALSE))

InitRender ==
    /\ config \in {ScenarioConfig, ThemeWithAliases}
    /\ anim = Static
    /\ vector_system = TRUE
    /\ icon_to_vector_id = Empty
    /\ svg_cache = Empty
    /\ lottie_cache = Empty
    /\ files \in {RenderFiles(op) : op \in FrameCounts}
    /\ theme = Empty
    /\ size = 0
    /\ current_cursor = Hidden
    /\ named_cursor_cache = Empty
    /\ texture_cache = Empty
    /\ alive = {}
    /\ served = Empty
    /\ io = NoIo
    /\ aborted = FALSE
    /\ call = [op |-> "new"]
    /\ ret = RetOk
    /\ steps = 0
    /\ repeated = FALSE
    /\ script = Empty
    /\ pc = 0

\* VectorRenderer::render_frame on a renderer the store has returned.
RenderFrameOf(renderer, frame_number, scale) ==
    /\ ~aborted
    /\ LET Drawn(got) ==
               ret' = IF got.ok
                      THEN [kind |-> "frame", hotspot |-> got.hotspot,
                            buffer |-> got.buffer]
                      ELSE [kind |-> "error"]
       IN  Drawn(render_frame(renderer, frame_number, scale))
    /\ call' = [op |-> "render_frame", renderer |-> renderer,
                frame |-> frame_number, scale |-> scale]
    /\ io' = NoIo
    /\ repeated' = (call' = call)
    /\ UNCHANGED <<config, anim, vector_system, icon_to_vector_id, storeVars,
                   rasterVars, aborted, steps, script, pc>>

NextRender ==
    \/ \E id \in StoreIds : StoreGetRenderer(id)
    \/ \E id \in DOMAIN svg_cache, n \in 0..MaxFrame, scale \in Scales :
          RenderFrameOf(svg_cache[id], n, scale)
    \/ \E id \in DOMAIN lottie_cache, n \in 0..MaxFrame, scale \in Scales :
          RenderFrameOf(lottie_cache[id], n, scale)

SpecRender == InitRender /\ [][NextRender]_vars

(***************************************************************************)
(* Construction with a vector theme directory: new_with_vector_theme reads *)
(* theme.toml of the directory in `files`, then any calls.                 *)
(***************************************************************************)
\* A theme.toml that is TOML: its "cursors" and "transitions" tables, each
\* present or not.
TomlDocument(cursors, transitions) ==
    [kind |-> "toml", cursors |-> cursors, transitions |-> transitions]

\* CursorThemeConfig::from_toml: [ok, config].  "cursors" is required,
\* "transitions" defaults to empty, a format is "svg" or "lottie".
from_toml(content) ==
    IF content.kind # "toml" THEN [ok |-> FALSE]
    ELSE IF ~content.cursors.some THEN [ok |-> FALSE]
    ELSE IF \E id \in DOMAIN content.cursors.v :
                content.cursors.v[id].format \notin {"svg", "lottie"}
    THEN [ok |-> FALSE]
    ELSE [ok |-> TRUE,
          config |-> CursorThemeConfig(content.cursors.v,
                         IF content.transitions.some
                         THEN content.transitions.v ELSE Empty)]

\* load_vector_system that goes on with an empty config when theme.toml does
\* not parse.
load_vector_system_EmptyOnError(dir) ==
    IF FileContent(dir, "theme.toml").kind \in {"missing", "unreadable"}
    THEN [some |-> FALSE]
    ELSE IF ~from_toml(FileContent(dir, "theme.toml")).ok
    THEN [some |-> TRUE, config |-> CursorThemeConfig(Empty, Empty)]
    ELSE [some |-> TRUE,
          config |-> from_toml(FileContent(dir, "theme.toml")).config]

\* load_vector_system(..).ok(): the config of the vector system, if any.
load_vector_system(dir) ==
    IF FileContent(dir, "theme.toml").kind \in {"missing", "unreadable"}
    THEN [some |-> FALSE]
    ELSE IF ~from_toml(FileContent(dir, "theme.toml")).ok
    THEN [some |-> FALSE]
    ELSE [some |-> TRUE,
          config |-> from_toml(FileContent(dir, "theme.toml")).config]

\* Vector theme directories: the cursor files with a theme.toml that is
\* missing, unreadable, not TOML, without "cursors", with an unknown format,
\* complete, and without "transitions".
VectorThemeDirs ==
    {FilesGood}
    \cup {("theme.toml" :> toml) @@ FilesGood :
            toml \in {Unreadable, Garbage,
                      TomlDocument(None, Some(ScenarioConfig.transitions)),
                      TomlDocument(
                          Some("default" :> CursorDefinition("png",
                                   "default.svg", None, None)),
                          None),
                      TomlDocument(Some(ScenarioConfig.cursors),
                                   Some(ScenarioConfig.transitions)),
                      TomlDocument(Some(ScenarioConfig.cursors), None)}}

\* new_with_vector_theme(theme, size, Some(path)).
NewWithVectorTheme(name, sz, dir) ==
    /\ files = dir
    /\ vector_system = load_vector_system(dir).some
    /\ config = IF vector_system THEN load_vector_system(dir).config
                ELSE CursorThemeConfig(Empty, Empty)
    /\ anim = IF vector_system THEN AnimatorNew(config) ELSE Static
    /\ icon_to_vector_id \in IF vector_system THEN IconMaps(config)
                             ELSE {Empty}
    /\ svg_cache = Empty
    /\ lottie_cache = Empty
    /\ theme = LoadTheme(name)
    /\ size = sz
    /\ current_cursor = default_named
    /\ named_cursor_cache = Empty
    /\ texture_cache = Empty
    /\ alive = Surfaces
    /\ served = Empty
    /\ io = NoIo
    /\ aborted = FALSE
    /\ call = [op |-> "new"]
    /\ ret = RetOk
    /\ steps = 0
    /\ repeated = FALSE
    /\ script = Empty
    /\ pc = 0

InitVectorTheme ==
    \E dir \in VectorThemeDirs : NewWithVectorTheme("full", 24, dir)

NextVectorTheme ==
    \/ \E status \in Statuses : SetCursorImage(status)
    \/ \E name \in ReloadThemes, sz \in ManagerSizes : Reload(name, sz)
    \/ GetRenderCursor(1)

SpecVectorTheme == InitVectorTheme /\ [][NextVectorTheme]_vars

(***************************************************************************)
(* The easing functions on their own: apply_easing on any input.           *)
(***************************************************************************)
\* Inputs of apply_easing: 0, 1, 0.5 and its two neighbours, 0.25, 0.75, the
\* largest value below 1, the smallest above 0, 2, infinity, NaN, and
\* negative values.
EasingInputs ==
    {FZero, FOne, FHalf, Fin(2^24 - 1, -25), Fin(2^23 + 1, -24),
     Fin(2^23, -25), Fin(3 * 2^22, -24), Fin(2^24 - 1, -24), Fin(1, MinExp),
     Fin(2^23, -22), FInf, FNaN, FNeg(FOne), FNeg(FHalf),
     FNeg(Fin(1, MinExp))}

AllEasings == Easings \cup {"elastic"}

InitEasing ==
    /\ config = CursorThemeConfig(Empty, Empty)
    /\ anim = Static
    /\ ManagerIdle
    /\ aborted = FALSE
    /\ call = [op |-> "new"]
    /\ ret = RetOk
    /\ steps = 0
    /\ repeated = FALSE
    /\ script = Empty
    /\ pc = 0

ApplyEasing(t, easing) ==
    /\ call' = [op |-> "apply_easing", t |-> t, easing |-> easing]
    /\ ret' = [kind |-> "f32", v |-> apply_easing(t, easing)]
    /\ repeated' = (call' = call)
    /\ UNCHANGED <<config, anim, managerVars, aborted, steps, script, pc>>

NextEasing ==
    \E t \in EasingInputs, easing \in AllEasings : ApplyEasing(t, easing)

SpecEasing == InitEasing /\ [][NextEasing]_vars

(***************************************************************************)
(* A transition under a steady clock: new, set_cursor("wait"), then update *)
(* with one fixed elapsed value for as long as the transition lasts.       *)
(***************************************************************************)
TickElapsed == {U32(50), U32(100), U32(150)}

TickConfigs ==
    {ThemeWith(None, d, e) : d \in {U32(300), U32(1000)}, e \in Easings}

InitTransition ==
    /\ config \in TickConfigs
    /\ anim = AnimatorNew(config)
    /\ ManagerIdle
    /\ aborted = FALSE
    /\ call = [op |-> "new"]
    /\ ret = RetOk
    /\ steps = 0
    /\ repeated = FALSE
    /\ script \in {<<UpdateCall(e)>> : e \in TickElapsed}
    /\ pc = 0

TransitionStart ==
    /\ ~aborted
    /\ pc = 0
    /\ anim' = set_cursor(config, anim, "wait")
    /\ pc' = 1
    /\ call' = SetCursorCall("wait")
    /\ repeated' = (call' = call)
    /\ ret' = RetOk
    /\ UNCHANGED <<config, managerVars, aborted, steps, script>>

\* The transition is under way and the clock ticks on.
TickReady == ~aborted /\ pc = 1 /\ anim.tag = "Transitioning"

\* update(e) while the transition lasts; steps is the parity of the number
\* of update calls made.
TransitionTick ==
    /\ TickReady
    /\ \E o \in update(config, anim, script[1].elapsed_ms) :
          /\ anim' = o.state
          /\ aborted' = o.panicked
          /\ ret' = IF o.panicked THEN RetPanic ELSE RetOk
    /\ steps' = 1 - steps
    /\ call' = script[1]
    /\ repeated' = (call' = call)
    /\ UNCHANGED <<config, managerVars, script, pc>>

NextTransition == TransitionStart \/ TransitionTick

\* The caller does call set_cursor, and goes on calling update while the
\* transition lasts: weak fairness of both actions.  TransitionTick is
\* enabled exactly when TickReady holds and every TransitionTick step changes
\* steps, so its weak fairness is written with TickReady in the place of
\* ENABLED <<TransitionTick>>_vars.
SpecTransition ==
    /\ InitTransition
    /\ [][NextTransition]_vars
    /\ WF_vars(TransitionStart)
    /\ ([]<>(~TickReady) \/ []<><<TransitionTick>>_vars)

(***************************************************************************)
(* Every public call of the manager next to a live animator: the calls of  *)
(* SpecManager and get_cursor_with_name, over one icon theme and the files *)
(* that render.                                                            *)
(***************************************************************************)
InitCalls ==
    InitManagerWith({"full"}, ManagerSizes, VectorSystems, {FilesGood})

NextCalls ==
    \/ NextManager
    \/ \E icon \in Icons : GetCursorWithName(icon, 1)

SpecCalls == InitCalls /\ [][NextCalls]_vars

(***************************************************************************)
(* The frame-buffer cache next to the manager: the host resolves a named   *)
(* cursor, picks a frame of it and asks CursorTextureCache for the frame's *)
(* buffer; reload and clear come in between.                               *)
(***************************************************************************)
\* MemoryRenderBuffer::from_slice of one frame at a scale.
from_slice(frame, scale) ==
    [pixels |-> frame.pixels, width |-> frame.width, height |-> frame.height,
     scale |-> scale]

\* CursorTextureCache::get: [cache, ret, panicked]; indexing the cached
\* list at idx panics when the list is shorter.
TextureCacheGet(cache, icon, scale, cursor, idx) ==
    LET key == <<icon, scale>>
        built == [i \in 1..Len(cursor.images) |->
                     from_slice(cursor.images[i], scale)]
        after == IF key \in DOMAIN cache THEN cache
                 ELSE (key :> built) @@ cache
    IN  IF idx < Len(after[key])
        THEN [cache |-> after,
              ret |-> [kind |-> "buffer", buffer |-> after[key][idx + 1]],
              panicked |-> FALSE]
        ELSE [cache |-> after, ret |-> RetPanic, panicked |-> TRUE]

TextureIcons == {"Default", "Wait"}

InitTexture ==
    InitManagerWith({"full"}, Sizes, {[some |-> FALSE]}, {Empty})

\* get(icon, scale, cursor, idx) for the frame set the manager holds for
\* (icon, scale) and a frame index of that set.
TextureGet(icon, scale) ==
    /\ ~aborted
    /\ <<icon, scale>> \in DOMAIN named_cursor_cache
    /\ named_cursor_cache[<<icon, scale>>].some
    /\ LET cursor == named_cursor_cache[<<icon, scale>>].v
       IN  \E idx \in 0..(Len(cursor.images) - 1) :
              LET Done(got) ==
                      /\ texture_cache' = got.cache
                      /\ ret' = got.ret
                      /\ aborted' = got.panicked
              IN  /\ Done(TextureCacheGet(texture_cache, icon, scale, cursor,
                                          idx))
                  /\ call' = [op |-> "texture_get", icon |-> icon,
                              scale |-> scale, cursor |-> cursor,
                              idx |-> idx]
    /\ io' = NoIo
    /\ repeated' = (call' = call)
    /\ UNCHANGED <<config, anim, vector_system, icon_to_vector_id, storeVars,
                   theme, size, current_cursor, named_cursor_cache, alive,
                   steps, script, pc>>

\* CursorTextureCache::clear.
TextureClear ==
    /\ ~aborted
    /\ texture_cache' = Empty
    /\ call' = [op |-> "texture_clear"]
    /\ ret' = RetOk
    /\ io' = NoIo
    /\ repeated' = (call' = call)
    /\ UNCHANGED <<config, anim, vector_system, icon_to_vector_id, storeVars,
                   theme, size, current_cursor, named_cursor_cache, alive,
                   aborted, steps, script, pc>>

NextTexture ==
    \/ \E icon \in TextureIcons : GetCursorWithName(icon, 1)
    \/ \E icon \in TextureIcons : TextureGet(icon, 1)
    \/ \E sz \in Sizes : Reload("full", sz)
    \/ TextureClear

SpecTexture == InitTexture /\ [][NextTexture]_vars

(***************************************************************************)
(* LottieRenderer::parse_layer on its own.  A layer is its "shapes" array: *)
(* groups ("gr") with their items "it", and shapes of another type.  An    *)
(* item is a path ("sh") with its vertices, a fill ("fl") or a stroke      *)
(* ("st") with a colour array "c" of components 0 or 1.                    *)
(***************************************************************************)
MaxGroups == 2

MaxItems == 3

Path(vertices, fill, stroke) ==
    [vertices |-> vertices, fill |-> fill, stroke |-> stroke]

\* (c[i] * 255.0) as u8 for the four components of a colour array.
ColorBytes(c) == <<c[1] * 255, c[2] * 255, c[3] * 255, c[4] * 255>>

\* parse_shape_path: the path of an "sh" item, fill-less and stroke-less.
parse_shape_path(item) == <<Path(item.ks, None, None)>>

\* The loop of the "fl" arm over the primitives produced so far.
ApplyFill(primitives, fill_color) ==
    [i \in 1..Len(primitives) |->
        IF primitives[i].fill = None
        THEN Path(primitives[i].vertices, Some(fill_color), None)
        ELSE primitives[i]]

\* The loop of the "st" arm over the primitives produced so far.
ApplyStroke(primitives, stroke_width, stroke_color) ==
    [i \in 1..Len(primitives) |->
        IF primitives[i].stroke = None
        THEN Path(primitives[i].vertices, None,
                  Some(<<stroke_width, stroke_color>>))
        ELSE primitives[i]]

\* One item of a group.
ParseItem(item, primitives) ==
    CASE item.ty = "sh" -> primitives \o parse_shape_path(item)
      [] item.ty = "fl" ->
           IF Len(item.c) >= 4
           THEN ApplyFill(primitives, ColorBytes(item.c))
           ELSE primitives
      [] item.ty = "st" ->
           IF Len(item.c) >= 4
           THEN ApplyStroke(primitives, item.w, ColorBytes(item.c))
           ELSE primitives
      [] OTHER -> primitives

RECURSIVE ParseItems(_, _)
ParseItems(items, primitives) ==
    IF items = << >> THEN primitives
    ELSE ParseItems(Tail(items), ParseItem(Head(items), primitives))

RECURSIVE ParseShapes(_, _)
ParseShapes(shapes, primitives) ==
    IF shapes = << >> THEN primitives
    ELSE ParseShapes(Tail(shapes),
                     IF Head(shapes).ty = "gr"
                     THEN ParseItems(Head(shapes).it, primitives)
                     ELSE primitives)

parse_layer(layer) == ParseShapes(layer.shapes, << >>)

\* The items of the runs; a path carries its place <<group, item>> as its
\* vertices, "fl3" is a fill whose colour array is too short.
ItemKinds == {"sh", "fl", "st", "fl3"}

ItemAt(kind, g, i) ==
    CASE kind = "sh" -> [ty |-> "sh", ks |-> <<g, i>>]
      [] kind = "fl" -> [ty |-> "fl", c |-> <<1, 0, 0, 1>>]
      [] kind = "st" -> [ty |-> "st", c |-> <<0, 0, 1, 1>>, w |-> 2]
      [] kind = "fl3" -> [ty |-> "fl", c |-> <<1, 0, 0>>]

GroupKinds == UNION {[1..n -> ItemKinds] : n \in 0..MaxItems}

ShapeKinds == {[ty |-> "el"]} \cup {[ty |-> "gr", it |-> k] : k \in GroupKinds}

ShapeAt(shape, g) ==
    IF shape.ty = "gr"
    THEN [ty |-> "gr",
          it |-> [i \in 1..Len(shape.it) |-> ItemAt(shape.it[i], g, i)]]
    ELSE shape

Layers ==
    {[shapes |-> [g \in 1..Len(kinds) |-> ShapeAt(kinds[g], g)]] :
        kinds \in UNION {[1..n -> ShapeKinds] : n \in 1..MaxGroups}}

InitLayer ==
    /\ config = CursorThemeConfig(Empty, Empty)
    /\ anim = Static
    /\ ManagerIdle
    /\ aborted = FALSE
    /\ call = [op |-> "new"]
    /\ ret = RetOk
    /\ steps = 0
    /\ repeated = FALSE
    /\ \E layer \in Layers : script = <<layer>>
    /\ pc = 0

ParseLayer ==
    /\ pc = 0
    /\ pc' = 1
    /\ call' = [op |-> "parse_layer", layer |-> script[1]]
    /\ ret' = [kind |-> "primitives", v |-> parse_layer(script[1])]
    /\ UNCHANGED <<config, anim, managerVars, aborted, steps, repeated,
                   script>>

NextLayer == ParseLayer

SpecLayer == InitLayer /\ [][NextLayer]_vars

(***************************************************************************)
(* Construction of the manager, repeated: the same theme directory is      *)
(* loaded again (a restart of the compositor) and the icon map is built    *)
(* again from the parsed config.                                           *)
(***************************************************************************)
InitIconMap ==
    InitManagerWith({"full"}, ManagerSizes,
                    {[some |-> TRUE, config |-> c] : c \in ManagerConfigs},
                    {FilesGood})

\* new_with_vector_theme once more, from the theme.toml that gave config.
Construct ==
    /\ icon_to_vector_id' \in IconMaps(config)
    /\ anim' = AnimatorNew(config)
    /\ svg_cache' = Empty
    /\ lottie_cache' = Empty
    /\ current_cursor' = default_named
    /\ named_cursor_cache' = Empty
    /\ texture_cache' = Empty
    /\ alive' = Surfaces
    /\ io' = NoIo
    /\ aborted' = FALSE
    /\ call' = [op |-> "new"]
    /\ ret' = RetOk
    /\ repeated' = (call' = call)
    /\ UNCHANGED <<config, vector_system, files, served, theme, size, steps,
                   script, pc>>

NextIconMap ==
    \/ Construct
    \/ \E status \in Statuses : SetCursorImage(status)
    \/ GetRenderCursor(1)

SpecIconMap == InitIconMap /\ [][NextIconMap]_vars

(***************************************************************************)
(* Properties.                                                             *)
(***************************************************************************)
ScenarioScript ==
    <<SetCursorCall("wait"), UpdateCall(U32(100)), UpdateCall(U32(100)),
      UpdateCall(U32(100))>>

\* C1: with cursors "default" and "wait" and a transition "default->wait" of
\* 300 ms with the default easing, new, set_cursor("wait") and three
\* update(100) calls leave the animator in Animated{"wait", 0, Loop}.
C1_ScenarioEndsAnimated ==
    (config = ScenarioConfig /\ script = ScenarioScript /\ pc = Len(script))
        => anim = Animated("wait", U32Zero, "Loop")

\* The progress update computes before it compares with 1.0.
RawProgress(cfg, state, elapsed_ms) ==
    FAdd(state.progress,
         FDiv(F32FromU32(elapsed_ms),
              F32FromU32(cfg.transitions[
                  TransitionKey(state.from_id, state.to_id)].duration_ms)))

\* C2: update on Transitioning{from, to, p} whose new progress reaches or
\* exceeds 1 yields exactly Animated{to, 0, Loop}, whatever loop mode `to`
\* declares and however large the elapsed value.
C2_CompletionLandsInLoop ==
    [][(/\ call'.op = "update"
        /\ anim.tag = "Transitioning"
        /\ FGeOne(RawProgress(config, anim, call'.elapsed_ms)))
          => anim' = Animated(anim.to_id, U32Zero, "Loop")]_vars

\* C2 witness: one oversized update has completed a transition to "wait",
\* which declares loop mode "bounce".
C2_Witness ==
    /\ config.cursors["wait"].loop_mode = Some("bounce")
    /\ call = UpdateCall(BigElapsed)
    /\ steps = 1
    /\ anim = Animated("wait", U32Zero, "Loop")

\* C3: set_cursor(id) directly after set_cursor(id) changes nothing.
C3_SetCursorIdempotent ==
    [][(call.op = "set_cursor" /\ call' = call) => anim' = anim]_vars

\* C3 witness: set_cursor of an undefined id without a transition has been
\* called twice in a row.
C3_Witness ==
    /\ repeated
    /\ call = SetCursorCall("ghost")
    /\ anim = Static

\* The loop mode a definition declares, Loop when it declares none or one
\* that is not "once", "loop" or "bounce".
DeclaredLoopMode(def) ==
    IF def.loop_mode = Some("once") THEN "Once"
    ELSE IF def.loop_mode = Some("bounce") THEN "Bounce"
    ELSE "Loop"

\* What C4 says set_cursor(x) yields from state s.
C4_Expected(cfg, s, x) ==
    IF s.tag = "Animated" /\ s.cursor_id = x THEN s
    ELSE IF s.tag = "Transitioning" /\ s.to_id = x THEN s
    ELSE IF s.tag = "Animated"
            /\ TransitionKey(s.cursor_id, x) \in DOMAIN cfg.transitions
    THEN Transitioning(s.cursor_id, x, FZero)
    ELSE IF s.tag = "Transitioning"
            /\ TransitionKey(s.to_id, x) \in DOMAIN cfg.transitions
    THEN Transitioning(s.to_id, x, FZero)
    ELSE IF x \in DOMAIN cfg.cursors
    THEN Animated(x, U32Zero, DeclaredLoopMode(cfg.cursors[x]))
    ELSE Static

\* C4: set_cursor(x) leaves a state whose target is x unchanged, else enters
\* Transitioning from the current target when a transition to x is keyed,
\* else Animated{x, 0, declared loop mode or Loop} when x is defined, else
\* Static; and it returns no error.
C4_SetCursorResult ==
    [][call'.op = "set_cursor"
          => /\ anim' = C4_Expected(config, anim, call'.cursor_id)
             /\ ret' = RetOk]_vars

\* C4 witness: set_cursor has entered a transition to an id that is not a
\* defined cursor.
C4_Witness ==
    /\ call = SetCursorCall("ghost")
    /\ "ghost" \notin DOMAIN config.cursors
    /\ anim = Transitioning("default", "ghost", FZero)


\* The renderer of cursor id loads and renders at a scale: the id is
\* defined, its file holds a document of its format, and a pixmap of the
\* scaled size can be created.
LoadsAndRenders(cfg, fs, id) ==
    /\ id \in DOMAIN cfg.cursors
    /\ LET content == FileContent(fs, cfg.cursors[id].file)
       IN  \/ cfg.cursors[id].format = "svg" /\ content = SvgDocument(FALSE)
           \/ cfg.cursors[id].format = "lottie" /\ content.kind = "json"

Playheads == {U32Zero, U32(150), BigElapsed}

Progresses == {FZero, FHalf, Fin(16649361, -24)}

\* The animator states that differ from state in playhead or progress only.
SameTarget(state) ==
    IF state.tag = "Animated"
    THEN {Animated(state.cursor_id, t, state.loop_mode) : t \in Playheads}
    ELSE IF state.tag = "Transitioning"
    THEN {Transitioning(state.from_id, state.to_id, p) : p \in Progresses}
    ELSE {state}

\* The vector attempt of get_render_cursor succeeds.
VectorPathServes ==
    /\ vector_system
    /\ anim.tag # "Static"
    /\ LoadsAndRenders(config, files, CurrentTarget(anim).v)

\* C5: with a vector system, the animator in Animated{id} or
\* Transitioning{_, to} and the renderer of that id loading and rendering,
\* get_render_cursor(scale) returns a Vector frame of that cursor at frame 0,
\* and the same for every playhead and every transition progress.
C5_VectorFrameZero ==
    [][(call'.op = "get_render_cursor" /\ VectorPathServes)
          => /\ ret'.kind = "Vector"
             /\ ret'.buffer = [cursor_id |-> CurrentTarget(anim).v,
                               frame |-> 0, scale |-> call'.scale]
             /\ \A state \in SameTarget(anim) :
                   LET got == get_vector_cursor(config, state, svg_cache,
                                  lottie_cache, files, HeldRenderers(ret),
                                  call'.scale)
                   IN  got.ok /\ got.ret = ret']_vars

\* C5 witness: get_render_cursor has returned the frame of "wait" while the
\* animator is in a transition from "default" to "wait".
C5_Witness ==
    /\ call.op = "get_render_cursor"
    /\ call.scale = 2
    /\ anim = Transitioning("default", "wait", FZero)
    /\ ret.kind = "Vector"
    /\ ret.buffer = [cursor_id |-> "wait", frame |-> 0, scale |-> 2]

\* The raster resolution of a status that needs no theme lookup.
C6_Expected(status) ==
    IF status.tag = "Hidden" THEN [kind |-> "Hidden"]
    ELSE [kind |-> "Surface", hotspot |-> SurfaceHotspot(status.surface),
          surface |-> status.surface]

\* C6: without a vector system, or with the animator Static, or when the
\* renderer of the target id does not load or render, get_render_cursor
\* returns the raster resolution of the stored status: Hidden for Hidden, the
\* surface and its hotspot for Surface, a Named frame set for Named(icon);
\* the call completes and leaves the vector system and the animator as they
\* were, so that the next call tries the vector path again.
C6_FallsBackToRaster ==
    [][(call'.op = "get_render_cursor" /\ ~VectorPathServes)
          => /\ ~aborted'
             /\ IF current_cursor.tag = "Named"
                THEN /\ ret'.kind = "Named"
                     /\ ret'.scale = call'.scale
                     /\ Len(ret'.cursor.images) >= 1
                ELSE ret' = C6_Expected(current_cursor)
             /\ vector_system' = vector_system
             /\ anim' = anim]_vars

\* C7: after set_cursor_image(status) the stored status is status; with a
\* vector system and status Named(icon) with icon in the alias map, the
\* animator state is set_cursor(mapped id) of the state before.
C7_SetCursorImage ==
    [][call'.op = "set_cursor_image"
          => /\ current_cursor' = call'.status
             /\ (/\ vector_system
                 /\ call'.status.tag = "Named"
                 /\ call'.status.icon \in DOMAIN icon_to_vector_id)
                   => anim' = set_cursor(config, anim,
                                 icon_to_vector_id[call'.status.icon])]_vars

\* C7 witness: set_cursor_image(Named(Wait)) has stored the status and
\* started the transition to the vector cursor mapped to Wait.
C7_Witness ==
    /\ call = [op |-> "set_cursor_image", status |-> Named("Wait")]
    /\ current_cursor = Named("Wait")
    /\ vector_system
    /\ icon_to_vector_id["Wait"] = "WAIT"
    /\ anim = Transitioning("default", "WAIT", FZero)

\* C8: get_cursor_with_name(Default, scale) and get_default_cursor(scale)
\* complete and return a frame set with at least one frame, for every scale
\* and every outcome of the theme lookup.
C8_DefaultAlwaysResolves ==
    [][(\/ call'.op = "get_cursor_with_name" /\ call'.icon = "Default"
        \/ call'.op = "get_default_cursor")
          => /\ ~aborted'
             /\ ret'.kind = "cursor"
             /\ ret'.v.some
             /\ Len(ret'.v.v.images) >= 1]_vars

\* The theme provides the icon under none of its names.
Omits(th, icon) ==
    /\ IconName(icon) \notin DOMAIN th
    /\ \A i \in 1..Len(IconAltNames(icon)) :
          IconAltNames(icon)[i] \notin DOMAIN th

\* C9: for an icon other than Default that the theme provides under neither
\* its primary name nor an alternate name, get_cursor_with_name returns None
\* and the call completes.
C9_OmittedIconIsNone ==
    [][(/\ call'.op = "get_cursor_with_name"
        /\ call'.icon # "Default"
        /\ Omits(theme, call'.icon))
          => /\ ~aborted'
             /\ ret' = [kind |-> "cursor", v |-> None]]_vars

\* C9 witness: get_cursor_with_name(Progress, 1) has returned None under a
\* theme that provides the default icon but none of the names of Progress.
C9_Witness ==
    /\ call = [op |-> "get_cursor_with_name", icon |-> "Progress",
               scale |-> 1]
    /\ theme = LoadTheme("legacy")
    /\ ret = [kind |-> "cursor", v |-> None]
    /\ io.loads = <<"progress", "left_ptr_watch", "half-busy">>

\* C10: for a cursor id whose first get_renderer succeeded, every later
\* get_renderer of that id returns the same renderer instance and reads no
\* file.
C10_RendererCached ==
    [][(call'.op = "get_renderer" /\ call'.cursor_id \in DOMAIN served)
          => /\ ret' = [kind |-> "renderer",
                        renderer |-> served[call'.cursor_id]]
             /\ io'.reads = << >>]_vars

\* C10 witness: a get_renderer of an id served before, after a get_renderer
\* of another id, has returned the first instance without a read.
C10_Witness ==
    /\ call = GetRendererCall("default")
    /\ ~repeated
    /\ {"default", "wait"} \subseteq DOMAIN served
    /\ served["default"].rc = 1
    /\ ret = [kind |-> "renderer", renderer |-> served["default"]]
    /\ io.reads = << >>


\* What get_cursor_with_name returns for a load outcome.
ResolvedCursor(got) ==
    IF got.r = "panic" THEN RetPanic
    ELSE [kind |-> "cursor",
          v |-> IF got.r = "ok" THEN Some(got.cursor) ELSE None]

\* C11: reload(theme, size) empties the raster cursor cache and leaves the
\* animator state and both renderer caches as they were; the
\* get_cursor_with_name(icon, scale) that follows it loads the icon from the
\* new theme at the new size.
C11_ReloadClearsRasterOnly ==
    [][/\ call'.op = "reload"
          => /\ named_cursor_cache' = Empty
             /\ theme' = LoadTheme(call'.theme)
             /\ size' = call'.size
             /\ anim' = anim
             /\ svg_cache' = svg_cache
             /\ lottie_cache' = lottie_cache
             /\ vector_system' = vector_system
       /\ (call.op = "reload" /\ call'.op = "get_cursor_with_name")
          => LET got == LoadNamedCursor(LoadTheme(call.theme), call.size,
                                        call'.icon, call'.scale)
             IN  /\ io'.loads = got.loads
                 /\ ret' = ResolvedCursor(got)]_vars

\* C11 witness: after a reload from theme "full" at size 24 to theme
\* "legacy" at size 48 with renderers cached and a transition under way,
\* get_cursor_with_name(Wait, 1) has loaded "watch" of the new theme.
C11_Witness ==
    /\ call = [op |-> "get_cursor_with_name", icon |-> "Wait", scale |-> 1]
    /\ theme = LoadTheme("legacy")
    /\ size = 48
    /\ io.loads = <<"wait", "watch">>
    /\ ret.v.some
    /\ <<"Default", 1>> \notin DOMAIN named_cursor_cache
    /\ svg_cache # Empty
    /\ lottie_cache # Empty
    /\ anim = Transitioning("default", "wait", FZero)

\* C12: a reload leaves both renderer caches empty.
C12_ReloadClearsRendererCaches ==
    [][call'.op = "reload"
          => svg_cache' = Empty /\ lottie_cache' = Empty]_vars


\* C13: under the render loop, once set_cursor_image has started a
\* transition to the cursor "wait" the animator eventually is in Animated of
\* that cursor, unless a later set_cursor_image has given it another target.
C13_RenderLoopCompletesTransition ==
    (anim.tag = "Transitioning" /\ anim.to_id = "wait")
        ~> (anim.tag # "Transitioning" \/ anim.to_id # "wait")


RECURSIVE DelaysBefore(_, _)
\* The sum of the delays of the first n images.
DelaysBefore(images, n) ==
    IF n = 0 THEN 0 ELSE DelaysBefore(images, n - 1) + images[n].delay

\* C14: frame is periodic: for a frame set with total duration D > 0,
\* frame(m) and frame(m + D) return the same index; for a frame set with
\* D = 0, frame(m) returns index 0 whatever the number of frames.
C14_FramePeriodic ==
    [][call'.op = "frame"
          => LET cursor == call'.cursor
                 duration == cursor.animation_duration
             IN  IF duration > 0
                 THEN /\ ret'.index = XCursorFrame(cursor, call'.millis + duration)
                      /\ XCursorFrame(cursor, call'.millis)
                            = XCursorFrame(cursor, call'.millis + 2 * duration)
                 ELSE ret'.index = 0]_vars

\* C14 witness: frame(7) of three images of total duration 5 has returned
\* the image that frame(2) shows.
C14_Witness ==
    /\ call.op = "frame"
    /\ call.millis = 7
    /\ Len(call.cursor.images) = 3
    /\ call.cursor.animation_duration = 5
    /\ ret.index = 1
    /\ XCursorFrame(call.cursor, 2) = 1

\* C15: for a frame set with total duration D > 0, frame(m) returns the one
\* index i with (delays of frames 0..i-1) <= m mod D < (delays of frames
\* 0..i); the frame at it has a delay above 0 and i is within the frame
\* list.
C15_FrameByElapsedDelay ==
    [][(call'.op = "frame" /\ call'.cursor.animation_duration > 0)
          => LET images == call'.cursor.images
                 at == call'.millis % call'.cursor.animation_duration
                 Holds(i) == /\ DelaysBefore(images, i) <= at
                             /\ at < DelaysBefore(images, i + 1)
             IN  /\ ret'.index \in 0..(Len(images) - 1)
                 /\ Holds(ret'.index)
                 /\ \A j \in 0..(Len(images) - 1) :
                       Holds(j) => j = ret'.index
                 /\ images[ret'.index + 1].delay > 0
                 /\ ret'.image = images[ret'.index + 1]]_vars

\* C15 witness: with delays 0, 2, 0 frame(3) has returned index 1, passing the
\* first frame, whose delay is 0.
C15_Witness ==
    /\ call.op = "frame"
    /\ call.millis = 3
    /\ Len(call.cursor.images) = 3
    /\ call.cursor.images[1].delay = 0
    /\ call.cursor.images[2].delay = 2
    /\ call.cursor.images[3].delay = 0
    /\ ret.index = 1


\* The frame set is_current_cursor_animated looks at for a Named status:
\* the icon's, or the default icon's when the icon does not resolve.
ResolvedFrames(th, sz, icon, scale) ==
    LET Choose(own) ==
            IF own.r = "ok" THEN own.cursor.images
            ELSE LoadNamedCursor(th, sz, "Default", scale).cursor.images
    IN  Choose(LoadNamedCursor(th, sz, icon, scale))

\* C16: is_current_cursor_animated(scale) returns true exactly when the
\* stored status is Named(icon) and the raster frame set resolved for it has
\* more than one frame, and false for Hidden and Surface, whatever the
\* animator state.
C16_AnimatedIffSeveralFrames ==
    [][call'.op = "is_current_cursor_animated"
          => /\ ret'.kind = "bool"
             /\ ret'.v = (/\ current_cursor.tag = "Named"
                          /\ Len(ResolvedFrames(theme, size,
                                     current_cursor.icon, call'.scale)) > 1)
       ]_vars


\* C17: get_renderer reads the file and constructs the renderer while
\* holding no cache lock, takes the exclusive lock only for the insert, and
\* looks the id up (and serves a hit) under a shared lock.
C17_ComputeOutsideLock ==
    \A caller \in Callers :
        /\ pc[caller].at = "load" => pc[caller].lock = "none"
        /\ pc[caller].at = "get" => pc[caller].lock = "read"
        /\ pc[caller].at = "insert" => pc[caller].lock = "write"


\* C18: for a renderer whose definition declares the hotspot (hx, hy),
\* render_frame(_, scale) returns the hotspot (hx * scale, hy * scale), and
\* (0, 0) when the definition declares none, in both backends.
C18_HotspotScaledOnce ==
    [][(call'.op = "render_frame" /\ ret'.kind = "frame")
          => LET declared ==
                     get_cursor(config, call'.renderer.cursor_id).v.hotspot
             IN  ret'.hotspot =
                     IF declared.some
                     THEN <<declared.v[1] * call'.scale,
                            declared.v[2] * call'.scale>>
                     ELSE <<0, 0>>]_vars

\* C19: render_frame(frame, scale) of a KeyframeComposition renderer draws
\* frame (frame mod total_frames) when total_frames > 0 and frame 0 when
\* total_frames = 0, so that render_frame(frame + total_frames, scale) gives
\* the same result.
C19_FrameModuloTotal ==
    [][(call'.op = "render_frame" /\ call'.renderer.format = "lottie")
          => LET total == call'.renderer.total_frames
                 again == render_frame(call'.renderer, call'.frame + total,
                                       call'.scale)
             IN  /\ ret'.kind = "frame"
                 /\ ret'.buffer.frame = IF total > 0 THEN call'.frame % total
                                        ELSE 0
                 /\ ret'.buffer.scale = call'.scale
                 /\ again.ok
                 /\ again.buffer = ret'.buffer
                 /\ again.hotspot = ret'.hotspot]_vars

\* C19 witness: frame 5 of a composition of 3 frames has been drawn as
\* frame 2.
C19_Witness ==
    /\ call.op = "render_frame"
    /\ call.renderer.format = "lottie"
    /\ call.renderer.total_frames = 3
    /\ call.frame = 5
    /\ ret.kind = "frame"
    /\ ret.buffer.frame = 2


\* C20: in every reachable animator state exactly one of Static, Animated
\* and Transitioning is active, and in every reachable Transitioning state
\* the stored progress is a number within [0, 1].
C20_ProgressWithinUnit ==
    /\ anim.tag \in {"Static", "Animated", "Transitioning"}
    /\ anim.tag = "Transitioning"
          => IsFin(anim.progress) /\ ~FLess(FOne, anim.progress)


\* The theme descriptor of the directory is missing, unreadable or
\* structurally invalid.
DescriptorFails(dir) ==
    \/ "theme.toml" \notin DOMAIN dir
    \/ dir["theme.toml"].kind # "toml"
    \/ ~dir["theme.toml"].cursors.some
    \/ \E id \in DOMAIN dir["theme.toml"].cursors.v :
          dir["theme.toml"].cursors.v[id].format \notin {"svg", "lottie"}

\* C21: when loading the vector theme fails, the manager is constructed with
\* no vector system and an empty icon-to-vector-id map, and no sequence of
\* set_cursor_image, reload and get_render_cursor calls returns a Vector
\* result.
C21_FailedLoadIsRasterOnly ==
    DescriptorFails(files)
        => /\ ~vector_system
           /\ icon_to_vector_id = Empty
           /\ anim = Static
           /\ ~aborted
           /\ ret.kind # "Vector"

\* C21 witness: with a theme.toml that is not TOML, after set_cursor_image
\* and reload, get_render_cursor has returned the raster cursor.
C21_Witness ==
    /\ "theme.toml" \in DOMAIN files
    /\ files["theme.toml"] = Garbage
    /\ current_cursor = Named("Wait")
    /\ theme = LoadTheme("legacy")
    /\ call.op = "get_render_cursor"
    /\ ret.kind = "Named"


\* C22: a new animator is in Animated{"default", playhead 0, the loop mode
\* declared for "default", Loop when none or an unknown one is declared} when
\* the config defines a cursor id "default", and in Static otherwise.
C22_NewAnimatorState ==
    call.op = "new"
        => anim = IF "default" \in DOMAIN config.cursors
                  THEN Animated("default", U32Zero,
                                DeclaredLoopMode(config.cursors["default"]))
                  ELSE Static

\* C22 witness: a new animator over a config that declares "bounce" for
\* "default".
C22_Witness ==
    /\ call.op = "new"
    /\ "default" \in DOMAIN config.cursors
    /\ config.cursors["default"].loop_mode = Some("bounce")
    /\ anim.tag = "Animated"
    /\ anim.loop_mode = "Bounce"


\* C23: every easing function f satisfies f(0) = 0 and f(1) = 1, an input
\* below 0 is evaluated as 0 and one above 1 as 1, and the two branches of
\* EaseInOut give the same value at t = 0.5.
C23_EasingEndpoints ==
    call.op = "apply_easing"
        => /\ call.t = FZero => ret.v = FZero
           /\ call.t = FOne => ret.v = FOne
           /\ call.t.k = "neg" => ret.v = FZero
           /\ (call.t.k = "inf" \/ (call.t.k = "fin" /\ FLess(FOne, call.t)))
                 => ret.v = FOne
           /\ (call.t = FHalf /\ call.easing \in {"easeinout", "easeinoutquad"})
                 => /\ ret.v = FMul(FDouble(FHalf), FHalf)
                    /\ ret.v = FSub(FOne, FDouble(FSquare(FSub(FOne, FHalf))))

\* C23 witness: Elastic of 2.0 has been evaluated as Elastic of 1.
C23_Witness ==
    /\ call = [op |-> "apply_easing", t |-> Fin(2^23, -22),
               easing |-> "elastic"]
    /\ ret.v = FOne


\* The value of a u32.
U32Value(a) == a.hi * Limb + a.lo

RECURSIVE ElapsedUpTo(_, _)
\* The sum of the elapsed_ms of the update calls among the first n calls of
\* the script.
ElapsedUpTo(calls, n) ==
    IF n = 0 THEN 0
    ELSE ElapsedUpTo(calls, n - 1)
         + (IF calls[n].op = "update" THEN U32Value(calls[n].elapsed_ms)
            ELSE 0)

\* C24: a transition does not complete early: while the elapsed_ms passed to
\* update since set_cursor entered Transitioning add up to less than the
\* transition's duration_ms, the animator stays in Transitioning, for every
\* easing function and every split of the time into update calls.
C24_NoEarlyCompletion ==
    (/\ pc >= 1
     /\ script[1].op = "set_cursor"
     /\ get_transition(config, "default", script[1].cursor_id).some
     /\ ElapsedUpTo(script, pc)
           < U32Value(get_transition(config, "default",
                                     script[1].cursor_id).v.duration_ms))
        => /\ anim.tag = "Transitioning"
           /\ anim.to_id = script[1].cursor_id


\* C25: every transition terminates: from a Transitioning{from, to, p} state,
\* repeated update(e) calls with a fixed e > 0 and no set_cursor in between
\* reach Animated{to, ..}, for every easing function and every
\* duration_ms > 0.
C25_TransitionTerminates ==
    (anim.tag = "Transitioning" /\ anim.to_id = "wait")
        ~> (anim.tag = "Animated" /\ anim.cursor_id = "wait")


\* C26: in every reachable Transitioning{from, to, _} state the config holds
\* a transition keyed "from->to" and the config never changes; update never
\* moves the animator from Transitioning to Static, and Static is entered
\* only by set_cursor with an id that is undefined and has no transition
\* from the current target.
C26_TransitionStaysConfigured ==
    [][/\ config' = config
       /\ anim'.tag = "Transitioning"
             => TransitionKey(anim'.from_id, anim'.to_id)
                    \in DOMAIN config'.transitions
       /\ (call'.op = "update" /\ anim.tag = "Transitioning")
             => anim'.tag # "Static"
       /\ (anim'.tag = "Static" /\ anim.tag # "Static")
             => /\ call'.op = "set_cursor"
                /\ call'.cursor_id \notin DOMAIN config.cursors
                /\ TransitionKey(CurrentTarget(anim).v, call'.cursor_id)
                       \notin DOMAIN config.transitions]_vars

\* C26 witness: set_cursor("ghost"), an undefined id with no transition from
\* "wait", has moved the animator of a config with a "default" cursor to
\* Static.
C26_Witness ==
    /\ call = SetCursorCall("ghost")
    /\ anim = Static
    /\ "default" \in DOMAIN config.cursors
    /\ "wait->ghost" \notin DOMAIN config.transitions


\* C27: update(elapsed) changes nothing in Static and nothing in
\* Animated{id} when id's definition is a PathScene or id is not defined; in
\* Animated{id} with a KeyframeComposition definition it adds elapsed to the
\* playhead and leaves cursor id and loop mode unchanged; in no state does
\* update change which cursor id is the current target.
C27_UpdateFrame ==
    [][call'.op = "update"
          => /\ CurrentTarget(anim') = CurrentTarget(anim)
             /\ anim.tag = "Static" => anim' = anim
             /\ (anim.tag = "Animated" /\ ~AdvancesPlayhead(config, anim))
                   => anim' = anim
             /\ AdvancesPlayhead(config, anim)
                   => /\ ret'.kind = "ok"
                      /\ anim'.tag = "Animated"
                      /\ anim'.cursor_id = anim.cursor_id
                      /\ anim'.loop_mode = anim.loop_mode
                      /\ ~U32Overflows(anim.start_time_ms, call'.elapsed_ms)
                      /\ anim'.start_time_ms
                            = U32WrappingAdd(anim.start_time_ms,
                                             call'.elapsed_ms)]_vars


\* C28: in every reachable animator state Animated{cursor_id, ..}, after any
\* sequence of set_cursor and update calls, cursor_id names a cursor that the
\* theme config defines.
C28_AnimatedIsDefined ==
    anim.tag = "Animated" => get_cursor(config, anim.cursor_id).some

\* C29: whenever the stored status is Hidden, get_render_cursor returns
\* Hidden, whatever the animator state is: the vector system never has a
\* cursor drawn while the status says it is hidden.
C29_HiddenStaysHidden ==
    [][(call'.op = "get_render_cursor" /\ current_cursor.tag = "Hidden")
          => ret'.kind = "Hidden"]_vars

\* C30: the animator state changes only through set_cursor: get_render_cursor,
\* is_current_cursor_animated, get_cursor_with_name, reload,
\* check_cursor_image_surface_alive, and set_cursor_image with Hidden, a
\* surface or a Named icon absent from the alias map leave it unchanged (the
\* manager never calls update), and a target the animator takes is an id
\* that matches an alias of some icon.
C30_AnimatorOwnsState ==
    [][/\ anim' # anim
          => /\ vector_system
             /\ call'.op = "set_cursor_image"
             /\ call'.status.tag = "Named"
             /\ call'.status.icon \in DOMAIN icon_to_vector_id
             /\ anim' = set_cursor(config, anim,
                                   icon_to_vector_id[call'.status.icon])
       /\ (CurrentTarget(anim').some
           /\ CurrentTarget(anim') # CurrentTarget(anim))
          => \E icon \in Icons :
                CurrentTarget(anim').v \in AliasesOf(config, icon)]_vars

\* set_cursor_image(Named(Progress)) on a theme that defines "ghost" and no
\* alias of Progress, met in the middle of a transition.
C30_Witness ==
    /\ vector_system
    /\ call.op = "set_cursor_image"
    /\ call.status = Named("Progress")
    /\ "Progress" \notin DOMAIN icon_to_vector_id
    /\ "ghost" \in DOMAIN config.cursors
    /\ anim.tag = "Transitioning"

\* C31: get_cursor_with_name(icon, scale) attempts the theme load only for a
\* key the cache does not hold and then stores the outcome, a frame set or
\* None, under the key; for a key the cache holds it loads nothing and
\* returns the stored entry; and an entry stays as stored until a reload.
C31_LoadOncePerKey ==
    [][/\ call'.op = "get_cursor_with_name"
          => LET key == <<call'.icon, call'.scale>>
             IN  /\ key \in DOMAIN named_cursor_cache
                    => /\ io'.loads = << >>
                       /\ ret' = [kind |-> "cursor",
                                  v |-> named_cursor_cache[key]]
                       /\ named_cursor_cache' = named_cursor_cache
                 /\ (key \notin DOMAIN named_cursor_cache /\ ~aborted')
                    => /\ io'.loads # << >>
                       /\ key \in DOMAIN named_cursor_cache'
                       /\ ret' = [kind |-> "cursor",
                                  v |-> named_cursor_cache'[key]]
       /\ call'.op # "reload"
          => \A key \in DOMAIN named_cursor_cache :
                /\ key \in DOMAIN named_cursor_cache'
                /\ named_cursor_cache'[key] = named_cursor_cache[key]]_vars

\* The same get_cursor_with_name call twice in a row for an icon the theme
\* does not provide: the second call answers None without a load.
C31_Witness ==
    /\ call.op = "get_cursor_with_name"
    /\ repeated
    /\ ret = [kind |-> "cursor", v |-> None]
    /\ io.loads = << >>
    /\ <<call.icon, call.scale>> \in DOMAIN named_cursor_cache

\* C32: a get_renderer(id) call that fails leaves both renderer caches as
\* they were and caches nothing for id, so the next get_renderer(id) attempts
\* the load again: a failing call for a defined id has read the cursor's
\* file, a failing call for an undefined id has read nothing.
C32_FailureNotCached ==
    [][(call'.op = "get_renderer" /\ ret'.kind = "error")
          => /\ svg_cache' = svg_cache
             /\ lottie_cache' = lottie_cache
             /\ call'.cursor_id \notin DOMAIN svg_cache'
             /\ call'.cursor_id \notin DOMAIN lottie_cache'
             /\ io'.reads =
                   IF get_cursor(config, call'.cursor_id).some
                   THEN <<get_cursor(config, call'.cursor_id).v.file>>
                   ELSE << >>]_vars

\* A second failing get_renderer for the same defined id, with another
\* renderer already cached: the file has been read again.
C32_Witness ==
    /\ call.op = "get_renderer"
    /\ repeated
    /\ ret.kind = "error"
    /\ io.reads # << >>
    /\ svg_cache # Empty

\* The keys of each cache are defined ids of the cache's format.
CachesTyped ==
    /\ \A id \in DOMAIN svg_cache :
          /\ get_cursor(config, id).some
          /\ get_cursor(config, id).v.format = "svg"
    /\ \A id \in DOMAIN lottie_cache :
          /\ get_cursor(config, id).some
          /\ get_cursor(config, id).v.format = "lottie"
    /\ DOMAIN svg_cache \cap DOMAIN lottie_cache = {}

\* C33: in every reachable state of the store each key of the svg cache is
\* a defined cursor id of format svg, each key of the lottie cache a defined
\* id of format lottie, no id is in both caches, and an entry once inserted
\* is never replaced or removed.
C33_CachesTypedAndStable ==
    /\ []CachesTyped
    /\ [][/\ \A id \in DOMAIN svg_cache :
                id \in DOMAIN svg_cache' /\ svg_cache'[id] = svg_cache[id]
          /\ \A id \in DOMAIN lottie_cache :
                /\ id \in DOMAIN lottie_cache'
                /\ lottie_cache'[id] = lottie_cache[id]]_vars

\* Both caches hold a renderer and a call has just been served from one.
C33_Witness ==
    /\ svg_cache # Empty
    /\ lottie_cache # Empty
    /\ call.op = "get_renderer"
    /\ repeated
    /\ ret.kind = "renderer"
    /\ io.reads = << >>

\* C34: the frame-buffer cache is rebuilt on reload: CursorTextureCache::get
\* (icon, scale, cursor, idx), for idx below the frame count of cursor,
\* completes and returns the buffer of frame idx of cursor, also after
\* reload(theme, size); no entry built from a frame set loaded before the
\* reload is served and no index falls outside the cached list.
C34_BuffersOfPassedFrameSet ==
    [][call'.op = "texture_get"
          => /\ ~aborted'
             /\ ret' = [kind |-> "buffer",
                        buffer |-> from_slice(
                            call'.cursor.images[call'.idx + 1],
                            call'.scale)]]_vars

\* The groups of the parsed layer and, for a group, its fill items with a
\* full colour array and the primitives that came from its paths.
ParsedGroups ==
    {g \in 1..Len(call.layer.shapes) : call.layer.shapes[g].ty = "gr"}

FillItems(g) ==
    {i \in 1..Len(call.layer.shapes[g].it) :
        /\ call.layer.shapes[g].it[i].ty = "fl"
        /\ Len(call.layer.shapes[g].it[i].c) >= 4}

FilledPaths(g) ==
    {i \in 1..Len(ret.v) : ret.v[i].vertices[1] = g /\ ret.v[i].fill # None}

\* C35: while a layer's primitives are extracted, a fill item changes the
\* fill of only one path primitive, the most recent fill-less one of its own
\* group: a group has at most as many filled paths as fill items, so earlier
\* fill-less paths of the group and the paths of groups without a fill item
\* keep no fill.
C35_FillOnlyLatestOfGroup ==
    call.op = "parse_layer"
        => \A g \in ParsedGroups :
              Cardinality(FilledPaths(g)) <= Cardinality(FillItems(g))

\* C36: a stroke item changes only the stroke of the primitive it applies to
\* and a fill item only its fill: a path followed in its group by a fill item
\* and a stroke item, in either order, ends with the fill colour and the
\* stroke width and colour set.
C36_FillAndStrokeBothKept ==
    call.op = "parse_layer"
        => \A g \in ParsedGroups :
              LET kinds == [i \in 1..Len(call.layer.shapes[g].it) |->
                               call.layer.shapes[g].it[i].ty]
              IN  kinds \in {<<"sh", "fl", "st">>, <<"sh", "st", "fl">>}
                  /\ Len(call.layer.shapes[g].it[IF kinds[2] = "fl" THEN 2
                                                  ELSE 3].c) >= 4
                  => \E i \in 1..Len(ret.v) :
                        /\ ret.v[i].vertices = <<g, 1>>
                        /\ ret.v[i].fill = Some(<<255, 0, 0, 255>>)
                        /\ ret.v[i].stroke
                              = Some(<<2, <<0, 0, 255, 255>>>>)

\* Every entry of the icon map names a defined cursor id whose lowercase
\* form is an alias of the entry's icon.
EntriesAreAliases ==
    \A icon \in DOMAIN icon_to_vector_id :
        /\ icon_to_vector_id[icon] \in DOMAIN config.cursors
        /\ IconOfAlias(Lower(icon_to_vector_id[icon])) = Some(icon)

\* C37: the icon map built at construction is a function of the theme config
\* alone: every entry maps an icon to a defined cursor id whose lowercase
\* form is an alias of that icon (so an id that matches no alias is in no
\* entry), and a construction from the same config builds the same map, also
\* when two defined ids are aliases of one icon.
C37_IconMapDetermined ==
    /\ []EntriesAreAliases
    /\ [][call'.op = "new" => icon_to_vector_id' = icon_to_vector_id]_vars

\* C38: in Animated{id} for a lottie cursor every update(e) completes normally
\* and adds e to the playhead without leaving the u32 range, so that after
\* update(e_1), ..., update(e_n) with no set_cursor that changes the state
\* the playhead is e_1 + ... + e_n.
C38_PlayheadSumInRange ==
    [][(call'.op = "update" /\ AdvancesPlayhead(config, anim))
          => /\ ~aborted'
             /\ ~U32Overflows(anim.start_time_ms, call'.elapsed_ms)
             /\ anim' = Animated(anim.cursor_id,
                                 U32WrappingAdd(anim.start_time_ms,
                                                call'.elapsed_ms),
                                 anim.loop_mode)]_vars
=============================================================================
